---- MODULE Spec2Model ----
(***************************************************************************)
(* A model of pycamilladsp.                                                *)
(*                                                                         *)
(* Part one: the filter design and evaluation classes                      *)
(* (camilladsp/filter_eval.py): Conv, DiffEq, Gain, BiquadCombo, Biquad,   *)
(* used as camilladsp/plot_filters.py uses them.  Its behaviours are those *)
(* of Spec.                                                                *)
(*                                                                         *)
(* Python floats are modelled as fixed-point integers in units of 1/Scale  *)
(* (1.0 is Scale).  Library functions (np.sin, np.cos, np.tan, np.sqrt,    *)
(* 10.0 ** x) are computed by truncated series in that arithmetic.  The    *)
(* samples decoded from a coefficient file are kept exact, as an integer   *)
(* numerator over the format's scale factor.                               *)
(*                                                                         *)
(* Part two: the websocket client (camilladsp/camillaws.py), _CamillaWS.   *)
(* Its behaviours are those of WSSpec.                                     *)
(*                                                                         *)
(* Part three: the command groups built on the client                      *)
(* (camilladsp/ratemonitor.py, volume.py, general.py) and the StopReason   *)
(* enum (camilladsp/datastructures.py).  Its behaviours are those of       *)
(* CmdSpec.                                                                *)
(*                                                                         *)
(* Part four: the websocket client called from several threads, one shared *)
(* attribute access per step.  Its behaviours are those of MTSpec.         *)
(***************************************************************************)
EXTENDS Integers, Sequences, FiniteSets, TLC

VARIABLES
    np_promotion,   \* numpy's scalar promotion rule of the installed numpy
    conf_type,      \* filterconf["type"]: the class the caller constructs
    conf,           \* filterconf["parameters"]: the caller's configuration record
    file,           \* the content of the coefficient file conf names (empty when none)
    filt,           \* the filter instance constructed (or the exception raised)
    aliased,        \* the attributes of filt bound to a list object of conf
    result,         \* the outcome of the last method call on filt
    _ws,            \* _CamillaWS._ws: the client's socket, or None
    cdsp_version,   \* _CamillaWS.cdsp_version: None or (major, minor, patch)
    sockets,        \* the sockets create_connection has returned, in order
    sent,           \* the messages sent so far, each with the socket it went to
    rawrepl,        \* what the last recv() returned (None before any)
    ws_call,        \* the last call on the client: the method and its arguments
    ws_result,      \* the outcome of the last call on the client
    _data,          \* StopReason.<member>._data, for every member of the enum
    held,           \* the StopReason values the caller was handed, each with its data then
    cmd_result,     \* the last call on a command group: arguments, query, outcome
    _lock,          \* _CamillaWS._lock: the thread holding it, or none
    threads,        \* every thread's position in the client method it is running
    pending,        \* per socket, the requests the server has not yet answered to the client
    established,    \* the sockets whose connect() has returned without raising, and when
    ncalls          \* the number of calls the threads have begun

filtervars == <<np_promotion, conf_type, conf, file, filt, aliased, result>>
wsvars == <<_ws, cdsp_version, sockets, sent, rawrepl, ws_call, ws_result>>
cmdvars == <<_data, held, cmd_result>>
mtvars == <<_lock, threads, pending, established, ncalls>>
vars == <<filtervars, wsvars, cmdvars, mtvars>>

\* what part one leaves alone, and what part two leaves alone
nonfiltervars == <<wsvars, cmdvars, mtvars>>
nonwsvars == <<filtervars, cmdvars, mtvars>>

----------------------------------------------------------------------------
(* Fixed-point arithmetic standing for Python's float arithmetic.  The     *)
(* primitives are functions, so that TLC evaluates each argument once.     *)

Scale == 1000

Abs[x \in Int] == IF x < 0 THEN -x ELSE x

\* x * y and x / y on fixed-point values, rounded down
FMul[x \in Int, y \in Int] == (x * y) \div Scale
FDiv[x \in Int, y \in Int] ==
    IF y > 0 THEN (x * Scale) \div y ELSE (-(x * Scale)) \div (-y)

Pi == 3142
Ln10 == 2303

\* one step of a Taylor series in Horner form: 1 - x2 * inner / k
Horner[x2 \in Int, k \in Int, inner \in Int] == Scale - (FMul[x2, inner] \div k)

\* sin on [0, pi/2]: x (1 - x^2/6 (1 - x^2/20 (1 - x^2/42 (1 - x^2/72))))
SinTaylor[x \in Int] ==
    FMul[x, Horner[FMul[x, x], 6, Horner[FMul[x, x], 20,
            Horner[FMul[x, x], 42, Horner[FMul[x, x], 72, Scale]]]]]

\* np.sin, np.cos on [0, pi]; np.tan on [0, pi/2)
Sin[x \in Int] == IF 2 * x <= Pi THEN SinTaylor[x] ELSE SinTaylor[Pi - x]
Cos[x \in Int] == IF 2 * x <= Pi THEN SinTaylor[(Pi \div 2) - x]
                  ELSE -SinTaylor[x - (Pi \div 2)]
Tan[x \in Int] == FDiv[Sin[x], Cos[x]]

\* e ** x: 1 + x (1 + x/2 (1 + x/3 (1 + x/4 (1 + x/5 (1 + x/6))))), and 10.0 ** x
Exp[x \in Int] ==
    Horner[-x, 1, Horner[-x, 2, Horner[-x, 3, Horner[-x, 4,
        Horner[-x, 5, Horner[-x, 6, Scale]]]]]]
Pow10[x \in Int] == Exp[FMul[x, Ln10]]

\* the integer square root of n >= 0, by bisection on [lo, hi]
ISqrt[n \in Int, lo \in Int, hi \in Int] ==
    IF lo >= hi THEN lo
    ELSE IF ((lo + hi + 1) \div 2) * ((lo + hi + 1) \div 2) <= n
         THEN ISqrt[n, (lo + hi + 1) \div 2, hi]
         ELSE ISqrt[n, lo, ((lo + hi + 1) \div 2) - 1]
\* np.sqrt
Sqrt[x \in Int] == ISqrt[x * Scale, 0, 40 * Scale]

\* Python's str(bool) / None, so that every is_stable result is one sort
PyBool(b) == IF b THEN "True" ELSE "False"
None == "None"

----------------------------------------------------------------------------
(* class Biquad                                                            *)

\* omega = 2.0 * np.pi * freq / fs
Omega(freq, fs) == FDiv[FMul[2 * Pi, freq], fs]

Coeffs_Free(c) ==
    [a0 |-> Scale, a1 |-> c.a1, a2 |-> c.a1,
     b0 |-> c.b0, b1 |-> c.b1, b2 |-> c.b2]

Coeffs_Highpass(c, fs) ==
    LET omega == Omega(c.freq, fs)
        sn == Sin[omega]
        cs == Cos[omega]
        alpha == FDiv[sn, 2 * c.q]
    IN  [b0 |-> ((Scale + cs) \div 2), b1 |-> -(Scale + cs), b2 |-> ((Scale + cs) \div 2),
         a0 |-> Scale + alpha, a1 |-> -2 * cs, a2 |-> Scale - alpha]

Coeffs_Lowpass(c, fs) ==
    LET omega == Omega(c.freq, fs)
        sn == Sin[omega]
        cs == Cos[omega]
        alpha == FDiv[sn, 2 * c.q]
    IN  [b0 |-> ((Scale - cs) \div 2), b1 |-> Scale - cs, b2 |-> ((Scale - cs) \div 2),
         a0 |-> Scale + alpha, a1 |-> -2 * cs, a2 |-> Scale - alpha]

Coeffs_Peaking(c, fs) ==
    LET omega == Omega(c.freq, fs)
        sn == Sin[omega]
        cs == Cos[omega]
        ampl == Pow10[(c.gain \div 40)]
        alpha == FDiv[sn, 2 * c.q]
    IN  [b0 |-> Scale + FMul[alpha, ampl], b1 |-> -2 * cs, b2 |-> Scale - FMul[alpha, ampl],
         a0 |-> Scale + FDiv[alpha, ampl], a1 |-> -2 * cs, a2 |-> Scale - FDiv[alpha, ampl]]

Coeffs_HighshelfFO(c, fs) ==
    LET omega == Omega(c.freq, fs)
        ampl == Pow10[(c.gain \div 40)]
        tn == Tan[(omega \div 2)]
    IN  [b0 |-> FMul[ampl, tn] + FMul[ampl, ampl], b1 |-> FMul[ampl, tn] - FMul[ampl, ampl],
         b2 |-> 0,
         a0 |-> FMul[ampl, tn] + Scale, a1 |-> FMul[ampl, tn] - Scale, a2 |-> 0]

\* alpha of the two second-order shelves
ShelfAlpha(sn, ampl, slope) ==
    FMul[(sn \div 2),
         Sqrt[FMul[ampl + FDiv[Scale, ampl], FDiv[Scale, (slope \div 12)] - Scale]
              + 2 * Scale]]

Coeffs_Highshelf(c, fs) ==
    LET omega == Omega(c.freq, fs)
        ampl == Pow10[(c.gain \div 40)]
        sn == Sin[omega]
        cs == Cos[omega]
        alpha == ShelfAlpha(sn, ampl, c.slope)
        beta == FMul[2 * Sqrt[ampl], alpha]
        ap == ampl + Scale
        am == ampl - Scale
    IN  [b0 |-> FMul[ampl, ap + FMul[am, cs] + beta],
         b1 |-> FMul[-2 * ampl, am + FMul[ap, cs]],
         b2 |-> FMul[ampl, ap + FMul[am, cs] - beta],
         a0 |-> ap - FMul[am, cs] + beta,
         a1 |-> 2 * (am - FMul[ap, cs]),
         a2 |-> ap - FMul[am, cs] - beta]

Coeffs_LowshelfFO(c, fs) ==
    LET omega == Omega(c.freq, fs)
        ampl == Pow10[(c.gain \div 40)]
        tn == Tan[(omega \div 2)]
        ampl2 == FMul[ampl, ampl]
    IN  [b0 |-> FMul[ampl2, tn] + ampl, b1 |-> FMul[ampl2, tn] - ampl, b2 |-> 0,
         a0 |-> tn + ampl, a1 |-> tn - ampl, a2 |-> 0]

Coeffs_Lowshelf(c, fs) ==
    LET omega == Omega(c.freq, fs)
        ampl == Pow10[(c.gain \div 40)]
        sn == Sin[omega]
        cs == Cos[omega]
        alpha == ShelfAlpha(sn, ampl, c.slope)
        beta == FMul[2 * Sqrt[ampl], alpha]
        ap == ampl + Scale
        am == ampl - Scale
    IN  [b0 |-> FMul[ampl, ap - FMul[am, cs] + beta],
         b1 |-> FMul[2 * ampl, am - FMul[ap, cs]],
         b2 |-> FMul[ampl, ap - FMul[am, cs] - beta],
         a0 |-> ap + FMul[am, cs] + beta,
         a1 |-> -2 * (am + FMul[ap, cs]),
         a2 |-> ap + FMul[am, cs] - beta]

Coeffs_LowpassFO(c, fs) ==
    LET omega == Omega(c.freq, fs)
        k == Tan[(omega \div 2)]
        alpha == Scale + k
    IN  [a0 |-> Scale, a1 |-> -FDiv[Scale - k, alpha], a2 |-> 0,
         b0 |-> FDiv[k, alpha], b1 |-> FDiv[k, alpha], b2 |-> 0]

Coeffs_HighpassFO(c, fs) ==
    LET omega == Omega(c.freq, fs)
        k == Tan[(omega \div 2)]
        alpha == Scale + k
    IN  [a0 |-> Scale, a1 |-> -FDiv[Scale - k, alpha], a2 |-> 0,
         b0 |-> FDiv[Scale, alpha], b1 |-> FDiv[-Scale, alpha], b2 |-> 0]

Coeffs_Notch(c, fs) ==
    LET omega == Omega(c.freq, fs)
        sn == Sin[omega]
        cs == Cos[omega]
        alpha == FDiv[sn, 2 * c.q]
    IN  [b0 |-> Scale, b1 |-> -2 * cs, b2 |-> Scale,
         a0 |-> Scale + alpha, a1 |-> -2 * cs, a2 |-> Scale - alpha]

Coeffs_Bandpass(c, fs) ==
    LET omega == Omega(c.freq, fs)
        sn == Sin[omega]
        cs == Cos[omega]
        alpha == FDiv[sn, 2 * c.q]
    IN  [b0 |-> alpha, b1 |-> 0, b2 |-> -alpha,
         a0 |-> Scale + alpha, a1 |-> -2 * cs, a2 |-> Scale - alpha]

Coeffs_Allpass(c, fs) ==
    LET omega == Omega(c.freq, fs)
        sn == Sin[omega]
        cs == Cos[omega]
        alpha == FDiv[sn, 2 * c.q]
    IN  [b0 |-> Scale - alpha, b1 |-> -2 * cs, b2 |-> Scale + alpha,
         a0 |-> Scale + alpha, a1 |-> -2 * cs, a2 |-> Scale - alpha]

Coeffs_AllpassFO(c, fs) ==
    LET omega == Omega(c.freq, fs)
        tn == Tan[(omega \div 2)]
        alpha == FDiv[tn + Scale, tn - Scale]
    IN  [b0 |-> Scale, b1 |-> alpha, b2 |-> 0,
         a0 |-> alpha, a1 |-> Scale, a2 |-> 0]

Coeffs_LinkwitzTransform(c, fs) ==
    LET f0 == c.freq_act
        q0 == c.q_act
        qt == c.q_target
        ft == c.freq_target
        d0i == FMul[FMul[2 * Pi, f0], FMul[2 * Pi, f0]]
        d1i == FDiv[FMul[2 * Pi, f0], q0]
        c0i == FMul[FMul[2 * Pi, ft], FMul[2 * Pi, ft]]
        c1i == FDiv[FMul[2 * Pi, ft], qt]
        fc == ((ft + f0) \div 2)
        gn == FDiv[FMul[2 * Pi, fc], Tan[FDiv[FMul[Pi, fc], fs]]]
        gn2 == FMul[gn, gn]
        cci == c0i + FMul[gn, c1i] + gn2
    IN  [b0 |-> FDiv[d0i + FMul[gn, d1i] + gn2, cci],
         b1 |-> FDiv[2 * (d0i - gn2), cci],
         b2 |-> FDiv[d0i - FMul[gn, d1i] + gn2, cci],
         a0 |-> Scale,
         a1 |-> FDiv[2 * (c0i - gn2), cci],
         a2 |-> FDiv[c0i - FMul[gn, c1i] + gn2, cci]]

BiquadTypes ==
    {"Free", "Highpass", "Lowpass", "Peaking", "HighshelfFO", "Highshelf",
     "LowshelfFO", "Lowshelf", "LowpassFO", "HighpassFO", "Notch", "Bandpass",
     "Allpass", "AllpassFO", "LinkwitzTransform"}

\* the if/elif chain of Biquad.__init__
BiquadCoeffs(c, fs) ==
    CASE c.type = "Free" -> Coeffs_Free(c)
      [] c.type = "Highpass" -> Coeffs_Highpass(c, fs)
      [] c.type = "Lowpass" -> Coeffs_Lowpass(c, fs)
      [] c.type = "Peaking" -> Coeffs_Peaking(c, fs)
      [] c.type = "HighshelfFO" -> Coeffs_HighshelfFO(c, fs)
      [] c.type = "Highshelf" -> Coeffs_Highshelf(c, fs)
      [] c.type = "LowshelfFO" -> Coeffs_LowshelfFO(c, fs)
      [] c.type = "Lowshelf" -> Coeffs_Lowshelf(c, fs)
      [] c.type = "LowpassFO" -> Coeffs_LowpassFO(c, fs)
      [] c.type = "HighpassFO" -> Coeffs_HighpassFO(c, fs)
      [] c.type = "Notch" -> Coeffs_Notch(c, fs)
      [] c.type = "Bandpass" -> Coeffs_Bandpass(c, fs)
      [] c.type = "Allpass" -> Coeffs_Allpass(c, fs)
      [] c.type = "AllpassFO" -> Coeffs_AllpassFO(c, fs)
      [] c.type = "LinkwitzTransform" -> Coeffs_LinkwitzTransform(c, fs)

\* lines 459-464: the stored coefficients, normalized by a0
Normalized(k, fs) ==
    [kind |-> "Biquad", fs |-> fs,
     a1 |-> FDiv[k.a1, k.a0], a2 |-> FDiv[k.a2, k.a0],
     b0 |-> FDiv[k.b0, k.a0], b1 |-> FDiv[k.b1, k.a0],
     b2 |-> FDiv[k.b2, k.a0]]

\* Biquad(conf, fs): the instance, or the exception an unknown type ends in
\* (no branch binds a1, so line 460 raises UnboundLocalError)
Biquad(c, fs) ==
    IF c.type \notin BiquadTypes
    THEN [kind |-> "Raised", exc |-> "UnboundLocalError"]
    ELSE Normalized(BiquadCoeffs(c, fs), fs)

\* Biquad_is_stable with the abs() around a1 forgotten
Biquad_is_stable_NoAbs(self) ==
    PyBool(Abs[self.a2] < Scale /\ self.a1 < self.a2 + Scale)

Biquad_is_stable(self) ==
    PyBool(Abs[self.a2] < Scale /\ Abs[self.a1] < self.a2 + Scale)

----------------------------------------------------------------------------
(* class Gain                                                              *)

Gain(c) == [kind |-> "Gain", gain |-> c.gain, inverted |-> c.inverted]

\* np.ones(f.shape) * x: one copy of x per grid point
Ones(f, x) == [i \in DOMAIN f |-> FMul[Scale, x]]

Gain_complex_gain(self, f) ==
    LET sign == IF self.inverted THEN -Scale ELSE Scale
    IN  [f |-> f, gain |-> Ones(f, FMul[Pow10[(self.gain \div 20)], sign])]

Gain_gain_and_phase(self, f) ==
    LET phaseval == IF self.inverted THEN FDiv[180 * Scale, Pi] ELSE 0
    IN  [f |-> f, gain |-> Ones(f, self.gain), phase |-> Ones(f, phaseval)]

Gain_is_stable(self) == PyBool(TRUE)

----------------------------------------------------------------------------
(* class DiffEq                                                            *)

\* DiffEq.__init__ defaulting the two vectors together, only when both are empty
DiffEq_BothOrNone(c, fs) ==
    [kind |-> "DiffEq", fs |-> fs,
     a |-> IF Len(c.a) = 0 /\ Len(c.b) = 0 THEN <<Scale>> ELSE c.a,
     b |-> IF Len(c.a) = 0 /\ Len(c.b) = 0 THEN <<Scale>> ELSE c.b]

DiffEq(c, fs) ==
    [kind |-> "DiffEq", fs |-> fs,
     a |-> IF Len(c.a) = 0 THEN <<Scale>> ELSE c.a,
     b |-> IF Len(c.b) = 0 THEN <<Scale>> ELSE c.b]

\* the attributes of a new DiffEq that are the caller's own list objects:
\* self.a = conf["a"] binds the caller's list, [1.0] is a new one
DiffEq_aliases(c) ==
    {k \in {"a", "b"} : Len(c[k]) # 0}

\* DiffEq_is_stable answering as Gain does
DiffEq_is_stable_True(self) == PyBool(TRUE)

DiffEq_is_stable(self) == None

----------------------------------------------------------------------------
(* class BiquadCombo                                                       *)
(* Butterw_q is called with an integer order (Butterworth) and with the    *)
(* float order / 2 (Linkwitz-Riley), which has a fractional part when the  *)
(* order is odd.  The model passes order2 = 2 * order, an integer in both  *)
(* cases: order % 2 > 0 is order2 % 4 > 0, floor(order / 2.0) is           *)
(* order2 \div 4, and (pi / order) * (n + 1/2) is pi * (2n + 1) / order2.  *)

\* the loop of Butterw_q: the Q of second-order stage n (0-based)
Butterw_qn(order2, n) ==
    FDiv[Scale, 2 * Sin[((Pi * (2 * n + 1)) \div order2)]]

\* Butterw_q without the first-order sentinel of an odd order
Butterw_q_NoSentinel(order2) ==
    [i \in 1..(order2 \div 4) |-> Butterw_qn(order2, i - 1)]

Butterw_q(order2) ==
    LET odd == order2 % 4 > 0
        n_so == order2 \div 4
        qvalues == [i \in 1..n_so |-> Butterw_qn(order2, i - 1)]
    IN  IF odd THEN Append(qvalues, -Scale) ELSE qvalues

\* q_temp[0:-1]
DropLast(s) == IF Len(s) = 0 THEN s ELSE SubSeq(s, 1, Len(s) - 1)

ComboTypes ==
    {"LinkwitzRileyHighpass", "LinkwitzRileyLowpass",
     "ButterworthHighpass", "ButterworthLowpass"}

\* ComboQvalues with the Linkwitz-Riley list not doubled
ComboQvalues_NotDoubled(ftype, order) ==
    IF ftype \in {"LinkwitzRileyHighpass", "LinkwitzRileyLowpass"}
    THEN LET q_temp == Butterw_q(order)
         IN  IF order % 4 > 0
             THEN DropLast(q_temp) \o <<(Scale \div 2)>>
             ELSE q_temp
    ELSE Butterw_q(2 * order)

\* ComboQvalues with the sentinel of an odd half-order kept
ComboQvalues_KeepSentinel(ftype, order) ==
    IF ftype \in {"LinkwitzRileyHighpass", "LinkwitzRileyLowpass"}
    THEN LET q_temp == Butterw_q(order)
         IN  IF order % 4 > 0
             THEN q_temp \o q_temp \o <<(Scale \div 2)>>
             ELSE q_temp \o q_temp
    ELSE Butterw_q(2 * order)

\* qvalues as the four branches of BiquadCombo.__init__ bind it
ComboQvalues(ftype, order) ==
    IF ftype \in {"LinkwitzRileyHighpass", "LinkwitzRileyLowpass"}
    THEN LET q_temp == Butterw_q(order)
         IN  IF order % 4 > 0
             THEN DropLast(q_temp) \o DropLast(q_temp) \o <<(Scale \div 2)>>
             ELSE q_temp \o q_temp
    ELSE Butterw_q(2 * order)

ComboTypeSo(ftype) ==
    IF ftype \in {"LinkwitzRileyHighpass", "ButterworthHighpass"}
    THEN "Highpass" ELSE "Lowpass"

ComboTypeFo(ftype) ==
    IF ftype \in {"LinkwitzRileyHighpass", "ButterworthHighpass"}
    THEN "HighpassFO" ELSE "LowpassFO"

\* the bqconf the loop of __init__ builds for one q
StageConf(ftype, freq, q) ==
    IF q >= 0
    THEN [freq |-> freq, q |-> q, type |-> ComboTypeSo(ftype)]
    ELSE [freq |-> freq, type |-> ComboTypeFo(ftype)]

\* BiquadCombo(conf, fs).  An unknown type binds no qvalues, and print(qvalues)
\* raises.  bqconfs records the configuration each stage was built from.
BiquadCombo(c, fs) ==
    IF c.type \notin ComboTypes
    THEN [kind |-> "Raised", exc |-> "UnboundLocalError"]
    ELSE LET qvalues == ComboQvalues(c.type, c.order)
             bqconfs == [i \in DOMAIN qvalues |-> StageConf(c.type, c.freq, qvalues[i])]
         IN  [kind |-> "BiquadCombo", ftype |-> c.type, order |-> c.order,
              freq |-> c.freq, fs |-> fs,
              qvalues |-> qvalues,
              bqconfs |-> bqconfs,
              biquads |-> [i \in DOMAIN qvalues |-> Biquad(bqconfs[i], fs)]]

BiquadCombo_is_stable(self) == None

----------------------------------------------------------------------------
(* class Conv                                                              *)
(* A coefficient file is a sequence of bytes (0..255) when it is read as   *)
(* binary, and a sequence of lines, each holding one number, when it is    *)
(* read as text.  A sample is the exact fraction num / den.                *)

\* Conv.SCALEFACTOR (1.0 is 1: samples are exact fractions)
ScaleFactor(fmt) ==
    CASE fmt = "FLOAT64LE" -> 1
      [] fmt = "FLOAT32LE" -> 1
      [] fmt = "S16LE" -> 2^15
      [] fmt = "S24LE" -> 2^23
      [] fmt = "S24LE3" -> 2^23
      [] fmt = "S32LE" -> 2^31

\* an optional integer: None is the empty sequence, n is <<n>>
NoneInt == <<>>

Ok(v) == [ok |-> TRUE, v |-> v]
Raise(exc) == [ok |-> FALSE, exc |-> exc]

\* ndarray.astype(np.int8) of one uint8 element
AsInt8(b) == IF b >= 128 THEN b - 256 ELSE b

\* values[start::3], start 0-based
Stride3(values, start) ==
    LET n == IF Len(values) > start THEN (Len(values) - start + 2) \div 3 ELSE 0
    IN  [i \in 1..n |-> values[start + 3 * (i - 1) + 1]]

\* x + y on one-dimensional arrays, with numpy's broadcasting of a length-1 operand
BroadcastAdd(x, y) ==
    CASE Len(x) = Len(y) -> Ok([i \in 1..Len(x) |-> x[i] + y[i]])
      [] Len(x) # Len(y) /\ Len(x) = 1 -> Ok([i \in 1..Len(y) |-> x[1] + y[i]])
      [] Len(x) # Len(y) /\ Len(x) # 1 /\ Len(y) = 1 -> Ok([i \in 1..Len(x) |-> x[i] + y[1]])
      [] OTHER -> Raise("ValueError")

\* Conv._repack_24bit.  Under NEP 50 promotion (numpy >= 2) the Python integer 2**16
\* does not fit the int8 operand and the product raises; under the legacy value-based
\* promotion the products are int32 and uint16 and never wrap.
_repack_24bit(values, promotion) ==
    IF promotion = "nep50" THEN Raise("OverflowError")
    ELSE LET hi == [i \in DOMAIN Stride3(values, 0) |-> AsInt8(Stride3(values, 0)[i]) * 2^16]
             mid == [i \in DOMAIN Stride3(values, 1) |-> Stride3(values, 1)[i] * 2^8]
             lo == Stride3(values, 2)
             s1 == BroadcastAdd(hi, mid)
         IN  IF s1.ok THEN BroadcastAdd(s1.v, lo) ELSE s1

\* np.fromfile(fname, offset=skip_bytes, count=-1, dtype=np.uint8)
FromFileBytes(bytes, skip_bytes) ==
    IF skip_bytes >= Len(bytes) THEN <<>> ELSE SubSeq(bytes, skip_bytes + 1, Len(bytes))

\* values / factor
Scaled(values, factor) == [i \in DOMAIN values |-> [num |-> values[i], den |-> factor]]

\* Conv._read_binary_coeffs.  read_bytes is NoneInt or <<n>>; with a number,
\* count = read_bytes / BYTESPERSAMPLE[...] is a float, which np.fromfile refuses
\* as its count.
_read_binary_coeffs(bytes, sampleformat, skip_bytes, read_bytes, promotion) ==
    IF read_bytes # NoneInt THEN Raise("TypeError")
    ELSE LET values == FromFileBytes(bytes, skip_bytes)
             packed == IF sampleformat = "S24LE3"
                       THEN _repack_24bit(values, promotion) ELSE Ok(values)
         IN  IF packed.ok THEN Ok(Scaled(packed.v, ScaleFactor(sampleformat)))
             ELSE packed

\* itertools.islice(rows, start, stop), stop NoneInt or <<index>>
ISlice(rows, start, stop) ==
    LET last == IF stop = NoneInt THEN Len(rows)
                ELSE IF stop[1] < Len(rows) THEN stop[1] ELSE Len(rows)
    IN  IF start >= last THEN <<>> ELSE SubSeq(rows, start + 1, last)

\* Conv._read_text_coeffs: float(row[0]) of the selected lines
_read_text_coeffs(lines, skip_lines, read_lines) ==
    Ok(Scaled(ISlice(lines, skip_lines, read_lines), Scale))

Has(c, key) == key \in DOMAIN c

\* the format _read_coeffs settles on, which it also stores into conf
ConfFormat(c) == IF Has(c, "format") THEN c.format ELSE "TEXT"

\* Conv._read_coeffs
_read_coeffs(c, content, promotion) ==
    LET read_nbr == IF ~Has(c, "read_bytes_lines") THEN NoneInt
                    ELSE IF c.read_bytes_lines = 0 THEN NoneInt
                    ELSE <<c.read_bytes_lines>>
        skip_nbr == IF ~Has(c, "skip_bytes_lines") THEN 0 ELSE c.skip_bytes_lines
    IN  IF ConfFormat(c) = "TEXT"
        THEN _read_text_coeffs(content, skip_nbr, read_nbr)
        ELSE _read_binary_coeffs(content, ConfFormat(c), skip_nbr, read_nbr, promotion)

\* the caller's conf after Conv(conf, fs): _read_coeffs stores the default format
ConfAfterConv(c) ==
    IF Has(c, "filename") /\ ~Has(c, "format")
    THEN [k \in DOMAIN c \cup {"format"} |-> IF k = "format" THEN "TEXT" ELSE c[k]]
    ELSE c

\* Conv(conf, fs); a falsy conf (None, {}) is the empty record
Conv(c, fs, content, promotion) ==
    LET values == IF DOMAIN c = {} THEN Ok(<<[num |-> Scale, den |-> Scale]>>)
                  ELSE IF Has(c, "filename") THEN _read_coeffs(c, content, promotion)
                  ELSE Ok(Scaled(c.values, Scale))
    IN  IF values.ok THEN [kind |-> "Conv", impulse |-> values.v, fs |-> fs]
        ELSE [kind |-> "Raised", exc |-> values.exc]

\* the attributes of a new Conv that are the caller's own list objects:
\* self.impulse = conf["values"] binds the caller's list; the default [1.0] and
\* what a file reader returns are new objects
Conv_aliases(c) ==
    IF DOMAIN c = {} THEN {}
    ELSE IF Has(c, "filename") THEN {}
    ELSE {"impulse"}

\* the least number of spectrum points Conv.complex_gain works with
MinPoints == 1024

\* np.linspace(start, stop, num): num points from start to stop, both included;
\* stop is an exact fraction
Linspace(start, stop, num) == [start |-> start, stop |-> stop, num |-> num]

\* the distance between two consecutive points of a linspace (start is 0)
LinspaceStep(ls) == [num |-> ls.stop.num, den |-> ls.stop.den * (ls.num - 1)]

\* Conv.complex_gain transforming npoints samples, without the doubling
Conv_complex_gain_NoDouble(self, f) ==
    LET impulselen == Len(self.impulse)
        npoints == IF impulselen < MinPoints THEN MinPoints ELSE impulselen
    IN  [f |-> f, impulselen |-> impulselen, npoints |-> npoints,
         nfft |-> npoints,
         f_fft |-> Linspace(0, [num |-> self.fs, den |-> 2], npoints),
         cut |-> "ndarray"]

\* Conv.complex_gain, up to the transform: npoints is the number of bins kept,
\* nfft the length of the zero-padded array handed to fft.fft, f_fft the
\* frequencies np.interp is told the kept bins lie at.  The spectrum itself is
\* left opaque.
Conv_complex_gain(self, f) ==
    LET impulselen == Len(self.impulse)
        npoints == IF impulselen < MinPoints THEN MinPoints ELSE impulselen
    IN  [f |-> f, impulselen |-> impulselen, npoints |-> npoints,
         nfft |-> npoints * 2,
         f_fft |-> Linspace(0, [num |-> self.fs, den |-> 2], npoints),
         cut |-> "ndarray"]

\* Conv.get_impulse: the time axis is left opaque, the impulse is self.impulse
Conv_get_impulse(self) == [t |-> "ndarray", impulse |-> self.impulse]

----------------------------------------------------------------------------
(* Attribute lookup and the calls a client makes on an instance.           *)

Kinds == {"Biquad", "BiquadCombo", "DiffEq", "Gain", "Conv"}

\* the evaluation methods each class body defines
ClassMethods(kind) ==
    CASE kind = "Conv" -> {"complex_gain", "gain_and_phase", "get_impulse"}
      [] kind = "DiffEq" -> {"complex_gain", "gain_and_phase", "is_stable"}
      [] kind = "Gain" -> {"complex_gain", "gain_and_phase", "is_stable"}
      [] kind = "BiquadCombo" -> {"is_stable", "complex_gain", "gain_and_phase"}
      [] kind = "Biquad" -> {"complex_gain", "gain_and_phase", "is_stable"}

\* the complex response of the kinds other than Gain is not evaluated: the call
\* returns arrays, which the model leaves opaque
Opaque == "ndarray"

is_stable(self) ==
    CASE self.kind = "DiffEq" -> DiffEq_is_stable(self)
      [] self.kind = "Gain" -> Gain_is_stable(self)
      [] self.kind = "BiquadCombo" -> BiquadCombo_is_stable(self)
      [] self.kind = "Biquad" -> Biquad_is_stable(self)

complex_gain(self, f) ==
    CASE self.kind = "Gain" -> Gain_complex_gain(self, f)
      [] self.kind = "Conv" -> Conv_complex_gain(self, f)
      [] OTHER -> Opaque

get_impulse(self) == Conv_get_impulse(self)

gain_and_phase(self, f) ==
    IF self.kind = "Gain" THEN Gain_gain_and_phase(self, f) ELSE Opaque

Returned(op, v) == [op |-> op, status |-> "return", value |-> v]
Raised(op, exc) == [op |-> op, status |-> "raise", value |-> exc]

\* self.<method>(...): AttributeError when the class defines no such method
CallIsStable(self) ==
    IF "is_stable" \in ClassMethods(self.kind)
    THEN Returned("is_stable", is_stable(self))
    ELSE Raised("is_stable", "AttributeError")

CallComplexGain(self, f) ==
    IF "complex_gain" \in ClassMethods(self.kind)
    THEN Returned("complex_gain", complex_gain(self, f))
    ELSE Raised("complex_gain", "AttributeError")

CallGainAndPhase(self, f) ==
    IF "gain_and_phase" \in ClassMethods(self.kind)
    THEN Returned("gain_and_phase", gain_and_phase(self, f))
    ELSE Raised("gain_and_phase", "AttributeError")

CallGetImpulse(self) ==
    IF "get_impulse" \in ClassMethods(self.kind)
    THEN Returned("get_impulse", get_impulse(self))
    ELSE Raised("get_impulse", "AttributeError")

\* filt._repack_24bit(vect), called directly on an instance: the integers it
\* returns, as exact fractions, or the exception it raises
Call_repack(vect, promotion) ==
    LET packed == _repack_24bit(vect, promotion)
    IN  [op |-> "_repack_24bit", vect |-> vect,
         status |-> IF packed.ok THEN "return" ELSE "raise",
         value |-> IF packed.ok THEN Scaled(packed.v, 1) ELSE packed.exc]

----------------------------------------------------------------------------
(* Inputs.  Frequencies and the sample rate are in one unit (kHz, say);    *)
(* gains and slopes in dB; all fixed-point.                                *)

MaxOrder == 8       \* orders of a BiquadCombo
MaxTaps == 2        \* length of a DiffEq coefficient vector or inline impulse
MaxBytes == 4       \* length of a coefficient file
MaxGrid == 2        \* length of a frequency grid

SeqsUpTo(S, n) == UNION {[1..k -> S] : k \in 0..n}

Rates == {8000}
Freqs == {1000, 1500, 3000}
Qs == {500, 707, 2000}
Gains == {-6000, 0, 6000}
Slopes == {6000, 12000}
FreeCoefs == {-1500, -500, 0, 500, 1500}
ByteVals == {0, 1, 255}

BiquadConfs ==
    [type : {"Free"}, a1 : FreeCoefs, a2 : FreeCoefs,
     b0 : {Scale}, b1 : {0, 500}, b2 : {0, 500}]
    \cup [type : {"Highpass", "Lowpass", "Notch", "Bandpass", "Allpass"},
          freq : Freqs, q : Qs]
    \cup [type : {"Peaking"}, freq : Freqs, q : Qs, gain : Gains]
    \cup [type : {"HighshelfFO", "LowshelfFO"}, freq : Freqs, gain : Gains]
    \cup [type : {"Highshelf", "Lowshelf"}, freq : Freqs, slope : Slopes, gain : Gains]
    \cup [type : {"LowpassFO", "HighpassFO", "AllpassFO"}, freq : Freqs]
    \cup [type : {"LinkwitzTransform"}, freq_act : {2000}, q_act : Qs,
          freq_target : {1000}, q_target : Qs]
    \cup [type : {"Bandstop"}, freq : Freqs, q : Qs]

ComboConfs == [type : ComboTypes, order : 1..MaxOrder, freq : Freqs]

DiffEqConfs == [a : SeqsUpTo({Scale, -500}, MaxTaps), b : SeqsUpTo({Scale, -500}, MaxTaps)]

GainConfs == [gain : Gains, inverted : BOOLEAN]

\* None (or {}): the empty record
NoConf == [k \in {} |-> 0]

\* impulse lengths around MinPoints
LongLens == {MinPoints - 1, MinPoints, MinPoints + 1}

InlineConfs ==
    {NoConf} \cup [values : SeqsUpTo({Scale, 500}, MaxTaps)]
             \cup {[values |-> [i \in 1..n |-> Scale]] : n \in LongLens}

\* c with key k set when the option o is <<v>>, c when o is <<>>
WithOpt(c, k, o) ==
    IF o = <<>> THEN c
    ELSE [x \in DOMAIN c \cup {k} |-> IF x = k THEN o[1] ELSE c[x]]

FileConfs ==
    {WithOpt(WithOpt(WithOpt([filename |-> "coeffs"], "format", f),
                     "skip_bytes_lines", s), "read_bytes_lines", r) :
        f \in {<<>>, <<"TEXT">>, <<"S24LE3">>},
        s \in {<<>>, <<1>>},
        r \in {<<>>, <<0>>, <<3>>}}

Files == SeqsUpTo(ByteVals, MaxBytes)

\* the frequencies a caller evaluates at
GridFreqs == {1000, 3000}

Grids == SeqsUpTo(GridFreqs, MaxGrid) \ {<<>>}

----------------------------------------------------------------------------
(* The state machine of part one: a caller holds a configuration (and the  *)
(* file it names), constructs the filter of that type from it, calls the   *)
(* filter's methods, and may go on to change the lists of its own          *)
(* configuration.  Filter instances share no state, so a behaviour follows *)
(* a single one.                                                           *)

NoFilt == [kind |-> "none"]
NoResult == [op |-> "none"]

\* the client of part two, untouched by part one
\* Python values, tagged with their type.  A float is kept in tenths.
PyNone == [type |-> "None"]
PyStr(parts) == [type |-> "str", parts |-> parts]
PyInt == [type |-> "int"]
PyBoolean(b) == [type |-> "bool", b |-> b]
PyI(v) == [type |-> "int", v |-> v]
PyF(tenths) == [type |-> "float", tenths |-> tenths]
PyTuple(items) == [type |-> "tuple", items |-> items]
PyList(items) == [type |-> "list", items |-> items]
PyDict(key, value) == [type |-> "dict", key |-> key, value |-> value]

WSIdle ==
    /\ _ws = <<>>
    /\ cdsp_version = <<>>
    /\ sockets = <<>>
    /\ sent = <<>>
    /\ rawrepl = <<>>
    /\ ws_call = NoResult
    /\ ws_result = NoResult

\* the members of the StopReason enum; each is one object for the whole process
StopReason == {"NONE", "DONE", "CAPTUREERROR", "PLAYBACKERROR",
               "CAPTUREFORMATCHANGE", "PLAYBACKFORMATCHANGE"}

\* StopReason.__new__: every member is created with _data = None
StopReason_new == [m \in StopReason |-> PyNone]

\* no command group has been called
CmdIdle ==
    /\ _data = StopReason_new
    /\ held = {}
    /\ cmd_result = NoResult

NumThreads == 2
Threads == 1..NumThreads

\* a thread that is in no method of the client
IdleThread == [pc |-> "idle", op |-> "none", call |-> 0, inner |-> FALSE,
               rawrepl |-> <<>>, made |-> 0]

\* no thread has called the client
MTIdle ==
    /\ _lock = <<>>
    /\ threads = [t \in Threads |-> IdleThread]
    /\ pending = <<>>
    /\ established = {}
    /\ ncalls = 0

Init ==
    /\ np_promotion \in {"legacy", "nep50"}
    /\ \/ conf_type = "Biquad" /\ conf \in BiquadConfs /\ file = <<>>
       \/ conf_type = "BiquadCombo" /\ conf \in ComboConfs /\ file = <<>>
       \/ conf_type = "DiffEq" /\ conf \in DiffEqConfs /\ file = <<>>
       \/ conf_type = "Gain" /\ conf \in GainConfs /\ file = <<>>
       \/ conf_type = "Conv" /\ conf \in InlineConfs /\ file = <<>>
       \/ conf_type = "Conv" /\ conf \in FileConfs /\ file \in Files
    /\ filt = NoFilt
    /\ aliased = {}
    /\ result = NoResult
    /\ WSIdle
    /\ CmdIdle
    /\ MTIdle

NewBiquad ==
    /\ filt = NoFilt
    /\ conf_type = "Biquad"
    /\ \E fs \in Rates : filt' = Biquad(conf, fs)
    /\ aliased' = {}
    /\ UNCHANGED <<np_promotion, conf_type, conf, file, result, nonfiltervars>>

NewBiquadCombo ==
    /\ filt = NoFilt
    /\ conf_type = "BiquadCombo"
    /\ \E fs \in Rates : filt' = BiquadCombo(conf, fs)
    /\ aliased' = {}
    /\ UNCHANGED <<np_promotion, conf_type, conf, file, result, nonfiltervars>>

NewDiffEq ==
    /\ filt = NoFilt
    /\ conf_type = "DiffEq"
    /\ \E fs \in Rates : filt' = DiffEq(conf, fs)
    /\ aliased' = DiffEq_aliases(conf)
    /\ UNCHANGED <<np_promotion, conf_type, conf, file, result, nonfiltervars>>

NewGain ==
    /\ filt = NoFilt
    /\ conf_type = "Gain"
    /\ filt' = Gain(conf)
    /\ aliased' = {}
    /\ UNCHANGED <<np_promotion, conf_type, conf, file, result, nonfiltervars>>

NewConvInline ==
    /\ filt = NoFilt
    /\ conf_type = "Conv"
    /\ conf \in InlineConfs
    /\ \E fs \in Rates : filt' = Conv(conf, fs, <<>>, np_promotion)
    /\ aliased' = Conv_aliases(conf)
    /\ UNCHANGED <<np_promotion, conf_type, conf, file, result, nonfiltervars>>

\* _read_coeffs writes the default format into the caller's record before it reads
NewConvFile ==
    /\ filt = NoFilt
    /\ conf_type = "Conv"
    /\ conf \in FileConfs
    /\ \E fs \in Rates : filt' = Conv(conf, fs, file, np_promotion)
    /\ conf' = ConfAfterConv(conf)
    /\ aliased' = Conv_aliases(conf)
    /\ UNCHANGED <<np_promotion, conf_type, file, result, nonfiltervars>>

Call_is_stable ==
    /\ filt.kind \in Kinds
    /\ result' = CallIsStable(filt)
    /\ UNCHANGED <<np_promotion, conf_type, conf, file, filt, aliased, nonfiltervars>>

Call_complex_gain ==
    /\ filt.kind \in Kinds
    /\ \E f \in Grids : result' = CallComplexGain(filt, f)
    /\ UNCHANGED <<np_promotion, conf_type, conf, file, filt, aliased, nonfiltervars>>

Call_gain_and_phase ==
    /\ filt.kind \in Kinds
    /\ \E f \in Grids : result' = CallGainAndPhase(filt, f)
    /\ UNCHANGED <<np_promotion, conf_type, conf, file, filt, aliased, nonfiltervars>>

Call_get_impulse ==
    /\ filt.kind \in Kinds
    /\ result' = CallGetImpulse(filt)
    /\ UNCHANGED <<np_promotion, conf_type, conf, file, filt, aliased, nonfiltervars>>

\* _repack_24bit called on the instance made by Conv(None, fs)
Call_repack_24bit ==
    /\ filt.kind = "Conv"
    /\ DOMAIN conf = {}
    /\ \E vect \in Files : result' = Call_repack(vect, np_promotion)
    /\ UNCHANGED <<np_promotion, conf_type, conf, file, filt, aliased, nonfiltervars>>

\* the keys of conf that hold a list of coefficients
ListKeys(kind, c) ==
    CASE kind = "DiffEq" -> {"a", "b"}
      [] kind = "Conv" -> IF DOMAIN c = {} THEN {}
                          ELSE IF Has(c, "values") THEN {"values"} ELSE {}
      [] OTHER -> {}

\* the attribute of the instance that conf[k] was read into
AttrOf(k) == IF k = "values" THEN "impulse" ELSE k

\* a list as the instance's attribute shows it
AsAttr(kind, list) == IF kind = "Conv" THEN Scaled(list, Scale) ELSE list

\* conf[k] is now newlist: the caller sees it through conf, and the instance sees
\* it through every attribute bound to the same list object
ListUpdated(k, newlist) ==
    /\ conf' = [conf EXCEPT ![k] = newlist]
    /\ filt' = IF AttrOf(k) \in aliased
               THEN [filt EXCEPT ![AttrOf(k)] = AsAttr(filt.kind, newlist)]
               ELSE filt
    /\ UNCHANGED <<np_promotion, conf_type, file, aliased, result, nonfiltervars>>

\* the caller runs conf[k][0] = 0.0 after construction
CallerSetsItem ==
    /\ filt.kind \in {"DiffEq", "Conv"}
    /\ \E k \in ListKeys(filt.kind, conf) :
            /\ Len(conf[k]) > 0
            /\ ListUpdated(k, [conf[k] EXCEPT ![1] = 0])

\* the caller runs conf[k].append(0.0) after construction
CallerAppends ==
    /\ filt.kind \in {"DiffEq", "Conv"}
    /\ \E k \in ListKeys(filt.kind, conf) :
            /\ Len(conf[k]) <= MaxTaps
            /\ ListUpdated(k, Append(conf[k], 0))

Next ==
    \/ NewBiquad
    \/ NewBiquadCombo
    \/ NewDiffEq
    \/ NewGain
    \/ NewConvInline
    \/ NewConvFile
    \/ Call_is_stable
    \/ Call_complex_gain
    \/ Call_gain_and_phase
    \/ Call_get_impulse
    \/ Call_repack_24bit
    \/ CallerSetsItem
    \/ CallerAppends

Spec == Init /\ [][Next]_vars

----------------------------------------------------------------------------
(* Part two: class _CamillaWS (camilladsp/camillaws.py).                   *)
(*                                                                         *)
(* An optional value is the empty sequence for None and <<v>> for v.  A    *)
(* socket is the index of its entry in `sockets`.  A Python value carried  *)
(* by a reply is a record tagged with its type; a string is kept as the    *)
(* sequence of its parts between dots, which is all the client looks at.   *)
(* The network and the server are the environment: each call is given the  *)
(* outcome `net` of the socket operations it may perform.                  *)


WSReturned(op, v) == [op |-> op, status |-> "return", exc |-> "none", value |-> v]
WSRaised(op, exc, v) == [op |-> op, status |-> "raise", exc |-> exc, value |-> v]

\* the message of a query that tests its argument for truth instead of for None;
\* False, 0 and "" are falsy, and so is every argument a caller passes here
Dumps_Truthy(command, arg) ==
    [json |-> "string", key |-> command, value |-> PyNone]

\* json.dumps(command) or json.dumps({command: arg}); arg is PyNone or a value
Dumps(command, arg) ==
    IF arg # PyNone THEN [json |-> "object", key |-> command, value |-> arg]
    ELSE [json |-> "string", key |-> command, value |-> PyNone]

\* a raw reply: text that is not JSON, a JSON number, or a JSON object with one key
\* whose body may hold "result" and "value"
NotJson ==
    [json |-> FALSE, dict |-> FALSE, key |-> "", has_result |-> FALSE, result |-> "",
     has_value |-> FALSE, value |-> PyNone]
JsonNumber ==
    [json |-> TRUE, dict |-> FALSE, key |-> "", has_result |-> FALSE, result |-> "",
     has_value |-> FALSE, value |-> PyNone]
JsonReply(key, has_result, res, has_value, value) ==
    [json |-> TRUE, dict |-> TRUE, key |-> key, has_result |-> has_result,
     result |-> res, has_value |-> has_value, value |-> value]

\* the default message of a CamillaError
DefaultError == PyStr(<<"Command returned an error">>)

\* _CamillaWS._handle_reply
_handle_reply(command, rawreply) ==
    IF ~rawreply.json THEN WSRaised("query", "IOError", PyNone)
    ELSE IF ~rawreply.dict THEN WSRaised("query", "TypeError", PyNone)
    ELSE IF rawreply.key # command THEN WSRaised("query", "IOError", PyNone)
    ELSE IF ~rawreply.has_result THEN WSRaised("query", "KeyError", PyNone)
    ELSE LET state == rawreply.result
             value == IF rawreply.has_value THEN rawreply.value ELSE PyNone
         IN  IF state = "Error" /\ value # PyNone
                 THEN WSRaised("query", "CamillaError", value)
             ELSE IF state = "Error" /\ value = PyNone
                 THEN WSRaised("query", "CamillaError", DefaultError)
             ELSE IF state = "Ok" /\ value # PyNone
                 THEN WSReturned("query", value)
             ELSE WSReturned("query", PyNone)

\* what a call did: the client's attributes after it, the messages it sent, the
\* reply it received (if any), the socket operations it performed, its outcome
Did(ws, version, sends, recvd, out) ==
    [ws |-> ws, version |-> version, sends |-> sends, recvd |-> recvd, out |-> out]

\* _CamillaWS.query answering None when there is no socket
query_NotConnectedReturnsNone(ws, version, command, arg, net) ==
    IF ws = <<>>
    THEN Did(ws, version, <<>>, <<>>, WSReturned("query", PyNone))
    ELSE IF net.send = "raise"
    THEN Did(<<>>, version, <<>>, <<>>, WSRaised("query", "IOError", PyNone))
    ELSE IF net.recv = "raise"
    THEN Did(<<>>, version, <<[sock |-> ws[1], text |-> Dumps(command, arg)]>>, <<>>,
             WSRaised("query", "IOError", PyNone))
    ELSE Did(ws, version, <<[sock |-> ws[1], text |-> Dumps(command, arg)]>>,
             <<net.reply>>, _handle_reply(command, net.reply))

\* _CamillaWS.query keeping its socket when send or recv raises
query_KeepsSocketOnFailure(ws, version, command, arg, net) ==
    IF ws = <<>>
    THEN Did(ws, version, <<>>, <<>>, WSRaised("query", "IOError", PyNone))
    ELSE IF net.send = "raise"
    THEN Did(ws, version, <<>>, <<>>, WSRaised("query", "IOError", PyNone))
    ELSE IF net.recv = "raise"
    THEN Did(ws, version, <<[sock |-> ws[1], text |-> Dumps(command, arg)]>>, <<>>,
             WSRaised("query", "IOError", PyNone))
    ELSE Did(ws, version, <<[sock |-> ws[1], text |-> Dumps(command, arg)]>>,
             <<net.reply>>, _handle_reply(command, net.reply))

\* _CamillaWS.query
query(ws, version, command, arg, net) ==
    IF ws = <<>>
    THEN Did(ws, version, <<>>, <<>>, WSRaised("query", "IOError", PyNone))
    ELSE IF net.send = "raise"
    THEN Did(<<>>, version, <<>>, <<>>, WSRaised("query", "IOError", PyNone))
    ELSE IF net.recv = "raise"
    THEN Did(<<>>, version, <<[sock |-> ws[1], text |-> Dumps(command, arg)]>>, <<>>,
             WSRaised("query", "IOError", PyNone))
    ELSE Did(ws, version, <<[sock |-> ws[1], text |-> Dumps(command, arg)]>>,
             <<net.reply>>, _handle_reply(command, net.reply))

\* resp.split(".", 3), then the first three items, "" for a missing one
_update_version(parts) ==
    [i \in 1..3 |-> IF i <= Len(parts) THEN parts[i] ELSE ""]

\* _CamillaWS.connect leaving the new socket in place when the version query raises
connect_KeepsSocketOnFailure(ws, version, newsock, net) ==
    IF net.create = "raise"
    THEN Did(<<>>, version, <<>>, <<>>, WSRaised("connect", "ConnectionRefusedError", PyNone))
    ELSE LET q == query(<<newsock>>, version, "GetVersion", PyNone, net)
         IN  IF q.out.status = "raise"
             THEN Did(q.ws, version, q.sends, q.recvd, [q.out EXCEPT !.op = "connect"])
             ELSE IF q.out.value.type # "str"
             THEN Did(q.ws, version, q.sends, q.recvd,
                      WSRaised("connect", "AttributeError", PyNone))
             ELSE Did(<<newsock>>, <<_update_version(q.out.value.parts)>>, q.sends,
                      q.recvd, WSReturned("connect", PyNone))

\* _CamillaWS.connect.  newsock is the socket create_connection returns when it
\* does.  Whatever is raised inside the try block, by create_connection, by query
\* or by _update_version (None or a number has no split), clears _ws and is
\* raised again.
connect(ws, version, newsock, net) ==
    IF net.create = "raise"
    THEN Did(<<>>, version, <<>>, <<>>, WSRaised("connect", "ConnectionRefusedError", PyNone))
    ELSE LET q == query(<<newsock>>, version, "GetVersion", PyNone, net)
         IN  IF q.out.status = "raise"
             THEN Did(<<>>, version, q.sends, q.recvd, [q.out EXCEPT !.op = "connect"])
             ELSE IF q.out.value.type # "str"
             THEN Did(<<>>, version, q.sends, q.recvd,
                      WSRaised("connect", "AttributeError", PyNone))
             ELSE Did(<<newsock>>, <<_update_version(q.out.value.parts)>>, q.sends,
                      q.recvd, WSReturned("connect", PyNone))

\* _CamillaWS.disconnect keeping its socket when close raises
disconnect_KeepsSocketOnCloseError(ws, version, net) ==
    IF ws # <<>> /\ net.close = "raise"
    THEN Did(ws, version, <<>>, <<>>, WSReturned("disconnect", PyNone))
    ELSE Did(<<>>, version, <<>>, <<>>, WSReturned("disconnect", PyNone))

\* _CamillaWS.disconnect: an exception of close() is swallowed
disconnect(ws, version, net) ==
    Did(<<>>, version, <<>>, <<>>, WSReturned("disconnect", PyNone))

\* _CamillaWS.is_connected
is_connected(ws) == ws # <<>>

\* a call of the method op with its arguments
Call(op, command, arg) == [op |-> op, command |-> command, arg |-> arg]

\* the state of a socket after close() was called on it
Closed(net) == IF net.close = "ok" THEN "closed" ELSE "close_failed"

----------------------------------------------------------------------------
(* Inputs of part two.                                                     *)

MaxSockets == 2     \* sockets create_connection returns in a behaviour
MaxSent == 2        \* messages sent in a behaviour

\* the commands replies are keyed by, and the command a caller queries
Commands == {"GetVersion", "GetState"}
QueryCommands == {"GetState"}
\* no argument, and the falsy arguments False, 0 and ""
Args == {PyNone, PyBoolean(FALSE), PyInt, PyStr(<<"">>)}

\* the values a reply may carry: version strings "3.0.1" and "3.0", a number
ReplyValues == {PyStr(<<"3", "0", "1">>), PyStr(<<"3", "0">>), PyInt}

Replies ==
    {NotJson, JsonNumber}
    \cup {JsonReply(k, FALSE, "", FALSE, PyNone) : k \in Commands}
    \cup {JsonReply(k, TRUE, r, FALSE, PyNone) : k \in Commands, r \in {"Ok", "Error"}}
    \cup {JsonReply(k, TRUE, r, TRUE, v) :
            k \in Commands, r \in {"Ok", "Error"}, v \in ReplyValues \cup {PyNone}}

Net(create, send, recv, reply, close) ==
    [create |-> create, send |-> send, recv |-> recv, reply |-> reply, close |-> close]

\* what the socket does during one query: send raises, recv raises, or a reply
QueryNets ==
    {Net("ok", "raise", "raise", NotJson, "ok"), Net("ok", "ok", "raise", NotJson, "ok")}
    \cup {Net("ok", "ok", "ok", r, "ok") : r \in Replies}

\* what the network does during one connect: no socket, or a socket and a query
ConnectNets == {Net("raise", "raise", "raise", NotJson, "ok")} \cup QueryNets

\* what the socket does during one close
CloseNets == {Net("ok", "ok", "ok", NotJson, "ok"), Net("ok", "ok", "ok", NotJson, "raise")}

----------------------------------------------------------------------------
(* The state machine of part two: one thread calls the client's methods.   *)

\* the filter classes of part one, untouched by part two
FilterIdle ==
    /\ np_promotion = "legacy"
    /\ conf_type = "none"
    /\ conf = NoConf
    /\ file = <<>>
    /\ filt = NoFilt
    /\ aliased = {}
    /\ result = NoResult

WSInit == WSIdle /\ FilterIdle /\ CmdIdle /\ MTIdle

\* the attributes, the message log and the last reply after a call that did d
Done(d) ==
    /\ _ws' = d.ws
    /\ cdsp_version' = d.version
    /\ sent' = sent \o d.sends
    /\ rawrepl' = IF d.recvd = <<>> THEN rawrepl ELSE d.recvd
    /\ ws_result' = d.out

Connect ==
    /\ Len(sockets) < MaxSockets
    /\ Len(sent) < MaxSent
    /\ \E net \in ConnectNets :
            /\ Done(connect(_ws, cdsp_version, Len(sockets) + 1, net))
            /\ sockets' = IF net.create = "ok" THEN Append(sockets, "open") ELSE sockets
    /\ ws_call' = Call("connect", "", PyNone)
    /\ UNCHANGED nonwsvars

Query ==
    /\ Len(sent) < MaxSent
    /\ \E command \in QueryCommands, arg \in Args, net \in QueryNets :
            /\ Done(query(_ws, cdsp_version, command, arg, net))
            /\ ws_call' = Call("query", command, arg)
    /\ UNCHANGED <<sockets, nonwsvars>>

Disconnect ==
    /\ \E net \in CloseNets :
            /\ Done(disconnect(_ws, cdsp_version, net))
            /\ sockets' = IF _ws # <<>> THEN [sockets EXCEPT ![_ws[1]] = Closed(net)]
                          ELSE sockets
    /\ ws_call' = Call("disconnect", "", PyNone)
    /\ UNCHANGED nonwsvars

IsConnected ==
    /\ ws_result' = WSReturned("is_connected", PyBoolean(is_connected(_ws)))
    /\ ws_call' = Call("is_connected", "", PyNone)
    /\ UNCHANGED <<_ws, cdsp_version, sockets, sent, rawrepl, nonwsvars>>

WSNext ==
    \/ Connect
    \/ Query
    \/ Disconnect
    \/ IsConnected

WSSpec == WSInit /\ [][WSNext]_vars

----------------------------------------------------------------------------
(* Part three: the command groups.  self.client.query(command, arg) is the *)
(* client's query of part two; here its outcome is an input, the value it  *)
(* returns.  The rates are integers, and for an integer rate the float     *)
(* comparisons 0.96 * r < rate and rate / r < 1.04 decide as the exact     *)
(* comparisons 96 * r < 100 * rate and 100 * rate < 104 * r do.            *)

_STANDARD_RATES == <<8000, 11025, 16000, 22050, 32000, 44100, 48000, 88200,
                     96000, 176400, 192000, 352800, 384000, 705600, 768000>>

\* int(x) for a number: a float is truncated towards zero
int(x) ==
    IF x.type = "int" THEN x
    ELSE IF x.tenths >= 0 THEN PyI(x.tenths \div 10) ELSE PyI(-((-x.tenths) \div 10))

\* float(x) for a number
float(x) == IF x.type = "float" THEN x ELSE PyF(10 * x.v)

CmdReturned(op, args, q, reply, v) ==
    [op |-> op, args |-> args, query |-> q, reply |-> reply,
     status |-> "return", value |-> v]
CmdRaised(op, args, q, reply, exc) ==
    [op |-> op, args |-> args, query |-> q, reply |-> reply,
     status |-> "raise", value |-> exc]

\* RateMonitor.capture_raw, given what the query returns
capture_raw(reply) == int(reply).v

\* min(_STANDARD_RATES, key=lambda val: abs(val - rate)): the first of the
\* entries at the least distance
Nearest(rate) ==
    LET dist(i) == IF _STANDARD_RATES[i] >= rate THEN _STANDARD_RATES[i] - rate
                   ELSE rate - _STANDARD_RATES[i]
        best == CHOOSE i \in DOMAIN _STANDARD_RATES :
                    /\ \A j \in DOMAIN _STANDARD_RATES : dist(i) <= dist(j)
                    /\ \A j \in 1..(i - 1) : dist(j) > dist(i)
    IN  _STANDARD_RATES[best]

\* RateMonitor.capture returning the nearest rate whenever the raw rate is inside
\* the outer window
capture_NoNearestCheck(reply) ==
    LET rate == capture_raw(reply)
    IN  IF /\ 96 * _STANDARD_RATES[1] < 100 * rate
           /\ 100 * rate < 104 * _STANDARD_RATES[Len(_STANDARD_RATES)]
        THEN <<Nearest(rate)>>
        ELSE <<>>

\* RateMonitor.capture, given what the query returns: <<nearest>>, or <<>> for None
capture(reply) ==
    LET rate == capture_raw(reply)
        nearest == Nearest(rate)
    IN  IF /\ 96 * _STANDARD_RATES[1] < 100 * rate
           /\ 100 * rate < 104 * _STANDARD_RATES[Len(_STANDARD_RATES)]
           /\ 96 * nearest < 100 * rate
           /\ 100 * rate < 104 * nearest
        THEN <<nearest>>
        ELSE <<>>

default_min_vol == PyF(-1500)
default_max_vol == PyF(500)

\* the argument Volume.adjust_volume builds when it sends the limits only if
\* both are given
adjust_volume_arg_BothLimits(fader, value, min_limit, max_limit) ==
    IF max_limit.type # "None" /\ min_limit.type # "None"
    THEN PyTuple(<<int(fader),
                   PyTuple(<<float(value), float(min_limit), float(max_limit)>>)>>)
    ELSE PyTuple(<<int(fader), float(value)>>)

\* the argument Volume.adjust_volume builds
adjust_volume_arg(fader, value, min_limit, max_limit) ==
    IF max_limit.type # "None" \/ min_limit.type # "None"
    THEN LET maxlim == IF max_limit.type # "None" THEN max_limit ELSE default_max_vol
             minlim == IF min_limit.type # "None" THEN min_limit ELSE default_min_vol
         IN  PyTuple(<<int(fader),
                       PyTuple(<<float(value), float(minlim), float(maxlim)>>)>>)
    ELSE PyTuple(<<int(fader), float(value)>>)

\* Volume.adjust_volume, given what the query returns
adjust_volume(fader, value, min_limit, max_limit, reply) ==
    LET args == [fader |-> fader, value |-> value,
                 min_limit |-> min_limit, max_limit |-> max_limit]
        q == [command |-> "AdjustFaderVolume",
              arg |-> adjust_volume_arg(fader, value, min_limit, max_limit)]
    IN  IF reply.type \notin {"list", "tuple"}
        THEN CmdRaised("adjust_volume", args, q, reply, "TypeError")
        ELSE IF Len(reply.items) # 2
        THEN CmdRaised("adjust_volume", args, q, reply, "ValueError")
        ELSE CmdReturned("adjust_volume", args, q, reply, float(reply.items[2]))

\* the member of StopReason a reason string names (<<>> when it names none)
ReasonEnum(reason) ==
    CASE reason = "None" -> <<"NONE">>
      [] reason = "Done" -> <<"DONE">>
      [] reason = "CaptureError" -> <<"CAPTUREERROR">>
      [] reason = "PlaybackError" -> <<"PLAYBACKERROR">>
      [] reason = "CaptureFormatChange" -> <<"CAPTUREFORMATCHANGE">>
      [] reason = "PlaybackFormatChange" -> <<"PLAYBACKFORMATCHANGE">>
      [] OTHER -> <<>>

\* _reason_from_reply(value) with the members' data being data: the member it
\* returns (or the exception it raises) and the members' data afterwards
_reason_from_reply(value, data) ==
    LET reason == IF value.type = "dict" THEN value.key
                  ELSE IF value.type = "str" THEN value.parts[1] ELSE ""
        d == IF value.type = "dict" THEN value.value ELSE PyNone
        reasonenum == ReasonEnum(reason)
    IN  IF reasonenum = <<>>
        THEN [status |-> "raise", value |-> "ValueError", data |-> data]
        ELSE [status |-> "return", value |-> reasonenum[1],
              data |-> [data EXCEPT ![reasonenum[1]] = d]]

(* Inputs. *)
RawRates == {0, 7680, 7681, 8000, 8319, 8320, 44100, 45863, 45864, 46000,
             46080, 46081, 88250, 798719, 798720, 1000000}
RateReplies == {PyI(r) : r \in RawRates} \cup {PyF(882505), PyF(-5)}

Faders == {PyI(0), PyI(1)}
Adjustments == {PyF(-25), PyI(3)}
MinLimits == {PyNone, PyF(-200), PyI(-20)}
MaxLimits == {PyNone, PyF(35)}
VolumeReplies == {PyList(<<PyI(0), PyF(-225)>>), PyList(<<PyI(1), PyI(-20)>>), PyNone}

StopReplies ==
    {PyStr(<<"None">>), PyStr(<<"Done">>), PyStr(<<"CaptureError">>),
     PyDict("CaptureError", PyStr(<<"a">>)), PyDict("CaptureError", PyStr(<<"b">>)),
     PyDict("CaptureFormatChange", PyI(44100)),
     PyStr(<<"Bogus">>), PyDict("Bogus", PyStr(<<"a">>))}

(* The state machine. *)
CmdInit == CmdIdle /\ FilterIdle /\ WSIdle /\ MTIdle

NoArgs == <<>>

\* rate.capture_raw()
Call_capture_raw ==
    /\ \E reply \in RateReplies :
          cmd_result' = CmdReturned("capture_raw", NoArgs,
                                    [command |-> "GetCaptureRate", arg |-> PyNone],
                                    reply, <<capture_raw(reply)>>)
    /\ UNCHANGED <<_data, held, filtervars, wsvars, mtvars>>

\* rate.capture()
Call_capture ==
    /\ \E reply \in RateReplies :
          cmd_result' = CmdReturned("capture", NoArgs,
                                    [command |-> "GetCaptureRate", arg |-> PyNone],
                                    reply, capture(reply))
    /\ UNCHANGED <<_data, held, filtervars, wsvars, mtvars>>

\* volume.adjust_volume(fader, value, min_limit, max_limit)
Call_adjust_volume ==
    /\ \E fader \in Faders, value \in Adjustments, min_limit \in MinLimits,
          max_limit \in MaxLimits, reply \in VolumeReplies :
          cmd_result' = adjust_volume(fader, value, min_limit, max_limit, reply)
    /\ UNCHANGED <<_data, held, filtervars, wsvars, mtvars>>

\* general.stop_reason(); the caller keeps the value it is handed
Call_stop_reason ==
    /\ \E reply \in StopReplies :
          LET r == _reason_from_reply(reply, _data)
              q == [command |-> "GetStopReason", arg |-> PyNone]
          IN  /\ _data' = r.data
              /\ IF r.status = "return"
                 THEN /\ cmd_result' = CmdReturned("stop_reason", NoArgs, q, reply, r.value)
                      /\ held' = held \cup {[member |-> r.value,
                                             data |-> r.data[r.value]]}
                 ELSE /\ cmd_result' = CmdRaised("stop_reason", NoArgs, q, reply, r.value)
                      /\ held' = held
    /\ UNCHANGED <<filtervars, wsvars, mtvars>>

CmdNext ==
    \/ Call_capture_raw
    \/ Call_capture
    \/ Call_adjust_volume
    \/ Call_stop_reason

CmdSpec == CmdInit /\ [][CmdNext]_vars

----------------------------------------------------------------------------
(* Part four: _CamillaWS shared by several threads.  A step is one access  *)
(* to a shared attribute, or one with-block of self._lock that touches the *)
(* socket once.  A call begins with its first step and is numbered then;   *)
(* the number stands for the request the call sends and for the reply to   *)
(* it.  The server answers the requests of a socket in the order they      *)
(* arrive: pending[s] is the queue of replies on their way to socket s.  A *)
(* socket that lost its connection raises on every later send and recv.    *)
(* The replies on their way to a socket are lost with its connection.      *)
(* Thread fields: pc is the line the thread is about to run, call is the   *)
(* number of its call, inner says the query runs inside connect(), rawrepl *)
(* is the local of that name, made is the socket its connect() created.    *)
(* established records, for a connect() that returned, its socket and the  *)
(* number of calls begun by then: the calls with a greater number began    *)
(* after it returned.                                                      *)

MaxCalls == 3

\* with self._lock: entering waits until no thread holds the lock; the mutant
\* enters at once
acquire_NoWait(lock) == TRUE

acquire(lock) == lock = <<>>

\* the socket self._ws can be used for send and recv
Usable(ws, socks) == ws # <<>> /\ socks[ws[1]] = "open"

\* thread t moves on to pc with its other fields as they are
Goto(t, pc) == threads' = [threads EXCEPT ![t].pc = pc]

\* thread t leaves the method it was called with
Return(t) == threads' = [threads EXCEPT ![t] = IdleThread]

\* an exception leaves query(): into connect()'s handler, or out to the caller
Raise_from_query(t) == IF threads[t].inner THEN Goto(t, "c_except") ELSE Return(t)

MTUntouched == UNCHANGED <<filtervars, cmdvars, sent, rawrepl, ws_call, ws_result>>

\* thread t is called with op: its fields as the call begins
Begun(t, op, pc) ==
    [pc |-> pc, op |-> op, call |-> ncalls + 1, inner |-> FALSE,
     rawrepl |-> <<>>, made |-> 0]

\* an idle thread may begin a call
CanBegin(t) == threads[t].pc = "idle" /\ ncalls < MaxCalls

\* query, line 41: if self._ws is None: raise IOError.  It is the first step of
\* a call of query() by an idle thread, or the next step of a connect().
Q_check(t) ==
    /\ \/ /\ CanBegin(t)
          /\ ncalls' = ncalls + 1
          /\ threads' = [threads EXCEPT ![t] =
                 IF _ws = <<>> THEN IdleThread ELSE Begun(t, "query", "q_lock")]
       \/ /\ threads[t].pc = "q_check"
          /\ ncalls' = ncalls
          /\ IF _ws = <<>> THEN Raise_from_query(t) ELSE Goto(t, "q_lock")
    /\ UNCHANGED <<_ws, cdsp_version, sockets, _lock, pending, established>>
    /\ MTUntouched

\* query, line 48: with self._lock
Q_lock(t) ==
    /\ threads[t].pc = "q_lock"
    /\ acquire(_lock)
    /\ _lock' = <<t>>
    /\ Goto(t, "q_send")
    /\ UNCHANGED <<_ws, cdsp_version, sockets, pending, established, ncalls>>
    /\ MTUntouched

\* query, line 49: self._ws.send(query); an exception leaves the with-block
Q_send(t) ==
    /\ threads[t].pc = "q_send"
    /\ IF Usable(_ws, sockets)
       THEN /\ pending' = [pending EXCEPT ![_ws[1]] = Append(@, threads[t].call)]
            /\ Goto(t, "q_recv")
            /\ _lock' = _lock
       ELSE /\ pending' = pending
            /\ Goto(t, "q_except")
            /\ _lock' = <<>>
    /\ UNCHANGED <<_ws, cdsp_version, sockets, established, ncalls>>
    /\ MTUntouched

\* query, line 50: rawrepl = self._ws.recv(), which waits for a reply; then the
\* with-block is left
Q_recv(t) ==
    /\ threads[t].pc = "q_recv"
    /\ IF Usable(_ws, sockets)
       THEN /\ pending[_ws[1]] # <<>>
            /\ threads' = [threads EXCEPT ![t].pc = "q_reply",
                                          ![t].rawrepl = <<Head(pending[_ws[1]])>>]
            /\ pending' = [pending EXCEPT ![_ws[1]] = Tail(@)]
       ELSE /\ Goto(t, "q_except")
            /\ pending' = pending
    /\ _lock' = <<>>
    /\ UNCHANGED <<_ws, cdsp_version, sockets, established, ncalls>>
    /\ MTUntouched

\* query, lines 51-53: self._ws = None; raise IOError
Q_except(t) ==
    /\ threads[t].pc = "q_except"
    /\ _ws' = <<>>
    /\ Raise_from_query(t)
    /\ UNCHANGED <<cdsp_version, sockets, _lock, pending, established, ncalls>>
    /\ MTUntouched

\* query, line 54: return self._handle_reply(command, rawrepl)
Q_reply(t) ==
    /\ threads[t].pc = "q_reply"
    /\ IF threads[t].inner THEN Goto(t, "c_version") ELSE Return(t)
    /\ UNCHANGED <<_ws, cdsp_version, sockets, _lock, pending, established, ncalls>>
    /\ MTUntouched

\* connect, lines 86-88: with self._lock: self._ws = create_connection(...), and
\* the call of query("GetVersion").  It is the first step of a call of connect()
\* by an idle thread.  The server accepts MaxSockets connections;
\* create_connection raises after that.
C_create(t) ==
    /\ CanBegin(t)
    /\ acquire(_lock)
    /\ ncalls' = ncalls + 1
    /\ IF Len(sockets) < MaxSockets
       THEN /\ sockets' = Append(sockets, "open")
            /\ pending' = Append(pending, <<>>)
            /\ _ws' = <<Len(sockets) + 1>>
            /\ threads' = [threads EXCEPT ![t] =
                   [Begun(t, "connect", "q_check") EXCEPT !.inner = TRUE,
                                                         !.made = Len(sockets) + 1]]
       ELSE /\ threads' = [threads EXCEPT ![t] = Begun(t, "connect", "c_except")]
            /\ UNCHANGED <<sockets, pending, _ws>>
    /\ UNCHANGED <<cdsp_version, _lock, established>>
    /\ MTUntouched

\* connect, line 89: self._update_version(rawvers), and the return
C_version(t) ==
    /\ threads[t].pc = "c_version"
    /\ cdsp_version' = <<_update_version(<<"3", "0", "1">>)>>
    /\ established' = established \cup {[sock |-> threads[t].made, at |-> ncalls]}
    /\ Return(t)
    /\ UNCHANGED <<_ws, sockets, _lock, pending, ncalls>>
    /\ MTUntouched

\* connect, lines 90-92: self._ws = None; raise
C_except(t) ==
    /\ threads[t].pc = "c_except"
    /\ _ws' = <<>>
    /\ Return(t)
    /\ UNCHANGED <<cdsp_version, sockets, _lock, pending, established, ncalls>>
    /\ MTUntouched

\* disconnect, line 98: if self._ws is not None.  It is the first step of a
\* call of disconnect() by an idle thread.
D_check(t) ==
    /\ CanBegin(t)
    /\ ncalls' = ncalls + 1
    /\ threads' = [threads EXCEPT ![t] =
           IF _ws = <<>> THEN IdleThread ELSE Begun(t, "disconnect", "d_close")]
    /\ UNCHANGED <<_ws, cdsp_version, sockets, _lock, pending, established>>
    /\ MTUntouched

\* disconnect, lines 99-103: with self._lock: self._ws.close(), any exception
\* swallowed
D_close(t) ==
    /\ threads[t].pc = "d_close"
    /\ acquire(_lock)
    /\ sockets' = IF _ws = <<>> THEN sockets ELSE [sockets EXCEPT ![_ws[1]] = "closed"]
    /\ pending' = IF _ws = <<>> THEN pending ELSE [pending EXCEPT ![_ws[1]] = <<>>]
    /\ Goto(t, "d_clear")
    /\ UNCHANGED <<_ws, cdsp_version, _lock, established, ncalls>>
    /\ MTUntouched

\* disconnect, line 104: self._ws = None
D_clear(t) ==
    /\ threads[t].pc = "d_clear"
    /\ _ws' = <<>>
    /\ Return(t)
    /\ UNCHANGED <<cdsp_version, sockets, _lock, pending, established, ncalls>>
    /\ MTUntouched

\* the network: the client's socket loses its connection (a socket the client
\* no longer holds is never used again)
Break ==
    /\ Usable(_ws, sockets)
    /\ sockets' = [sockets EXCEPT ![_ws[1]] = "broken"]
    /\ pending' = [pending EXCEPT ![_ws[1]] = <<>>]
    /\ UNCHANGED <<_ws, cdsp_version, _lock, threads, established, ncalls>>
    /\ MTUntouched

MTInit == MTIdle /\ WSIdle /\ FilterIdle /\ CmdIdle

MTNext ==
    \/ \E t \in Threads : Q_check(t)
    \/ \E t \in Threads : Q_lock(t)
    \/ \E t \in Threads : Q_send(t)
    \/ \E t \in Threads : Q_recv(t)
    \/ \E t \in Threads : Q_except(t)
    \/ \E t \in Threads : Q_reply(t)
    \/ \E t \in Threads : C_create(t)
    \/ \E t \in Threads : C_version(t)
    \/ \E t \in Threads : C_except(t)
    \/ \E t \in Threads : D_check(t)
    \/ \E t \in Threads : D_close(t)
    \/ \E t \in Threads : D_clear(t)
    \/ Break

MTSpec == MTInit /\ [][MTNext]_vars

----------------------------------------------------------------------------
(* Properties.                                                             *)

CalledIsStable == filt.kind \in Kinds /\ result.op = "is_stable"

\* C1: a Free biquad stores the supplied a1, a2, b0, b1, b2 as they are (a0 = 1),
\* and one built with a1 = 0, a2 = 1.5 reports is_stable() = false.
C1_FreeStoresSupplied ==
    (filt.kind = "Biquad" /\ conf.type = "Free") =>
        /\ filt.a1 = conf.a1 /\ filt.a2 = conf.a2
        /\ filt.b0 = conf.b0 /\ filt.b1 = conf.b1 /\ filt.b2 = conf.b2
        /\ (conf.a1 = 0 /\ conf.a2 = 1500 /\ result.op = "is_stable")
               => result.value = "False"

\* C2: Gain.gain_and_phase returns, at every grid point, the configured gain in dB
\* and a phase of exactly 180 degrees when inverted, 0 degrees when not.
C2_GainPhase ==
    (filt.kind = "Gain" /\ result.op = "gain_and_phase") =>
        /\ result.status = "return"
        /\ \A i \in DOMAIN result.value.f :
              /\ result.value.gain[i] = filt.gain
              /\ result.value.phase[i] = IF filt.inverted THEN 180 * Scale ELSE 0

\* a Conv was built from a packed 24-bit file, read from its start to its end
S24LE3WholeFile ==
    /\ filt.kind \in {"Conv", "Raised"}
    /\ Has(conf, "filename")
    /\ conf.format = "S24LE3"
    /\ ~Has(conf, "skip_bytes_lines")
    /\ (Has(conf, "read_bytes_lines") => conf.read_bytes_lines = 0)

\* the sample the bytes (lsb, mid, msb) stand for, msb signed
LittleEndian24(lsb, mid, msb) ==
    (IF msb >= 128 THEN msb - 256 ELSE msb) * 65536 + mid * 256 + lsb

\* C3: S24LE3 decoding yields, for each consecutive triple (lsb, mid, msb) of the
\* file, the sample (msb_signed * 2^16 + mid * 2^8 + lsb) / 2^23.  Stated for the
\* legacy promotion rule, under which the decoder returns samples at all.
C3_S24LE3LittleEndian ==
    (S24LE3WholeFile /\ np_promotion = "legacy" /\ Len(file) % 3 = 0) =>
        /\ filt.kind = "Conv"
        /\ Len(filt.impulse) = Len(file) \div 3
        /\ \A i \in 1..(Len(file) \div 3) :
              /\ filt.impulse[i].den = 8388608
              /\ filt.impulse[i].num =
                    LittleEndian24(file[3 * i - 2], file[3 * i - 1], file[3 * i])

\* C4: S24LE3 data whose byte count is not a multiple of 3 is reported as an error
\* and yields no sample sequence.
C4_S24LE3RemainderIsError ==
    (S24LE3WholeFile /\ Len(file) % 3 # 0) => filt.kind = "Raised"

IsSecondOrder(bqconf) == Has(bqconf, "q") /\ bqconf.type \in {"Lowpass", "Highpass"}
IsFirstOrder(bqconf) == ~Has(bqconf, "q") /\ bqconf.type \in {"LowpassFO", "HighpassFO"}

IsButterworth == filt.kind = "BiquadCombo"
                 /\ filt.ftype \in {"ButterworthLowpass", "ButterworthHighpass"}
IsLinkwitzRiley == filt.kind = "BiquadCombo"
                   /\ filt.ftype \in {"LinkwitzRileyLowpass", "LinkwitzRileyHighpass"}

\* C5: a Butterworth combo of order N >= 1 has ceil(N/2) stages: floor(N/2)
\* second-order stages, one per Q_k, followed by one first-order stage iff N is odd.
C5_ButterworthStages ==
    IsButterworth =>
        LET N == filt.order
        IN  /\ Len(filt.biquads) = (N + 1) \div 2
            /\ \A i \in 1..(N \div 2) :
                  /\ IsSecondOrder(filt.bqconfs[i])
                  /\ filt.bqconfs[i].q = filt.qvalues[i]
                  /\ filt.bqconfs[i].q > 0
            /\ \A i \in DOMAIN filt.biquads :
                  /\ filt.biquads[i].kind = "Biquad"
                  /\ (i > N \div 2) =>
                        /\ N % 2 = 1
                        /\ IsFirstOrder(filt.bqconfs[i])
                        /\ filt.biquads[i].a2 = 0 /\ filt.biquads[i].b2 = 0

C5_Witness ==
    /\ IsButterworth
    /\ filt.order = 4
    /\ Len(filt.biquads) = 2
    /\ \A i \in 1..2 : IsSecondOrder(filt.bqconfs[i])

\* C6 as stated: a Linkwitz-Riley combo of order 4 has a Q-list of length 4 with
\* no Q = 0.5 stage.
C6_LR4LengthFour ==
    (IsLinkwitzRiley /\ filt.order = 4) =>
        /\ Len(filt.qvalues) = 4
        /\ \A i \in DOMAIN filt.qvalues : filt.qvalues[i] # Scale \div 2

\* C6 amended: a Linkwitz-Riley combo of order 4 has a Q-list of length 2, the
\* one-element Butterworth(2) list doubled, with no Q = 0.5 stage.
C6_LR4LengthTwo ==
    (IsLinkwitzRiley /\ filt.order = 4) =>
        /\ Len(filt.qvalues) = 2
        /\ Len(Butterw_q(4)) = 1
        /\ filt.qvalues = Butterw_q(4) \o Butterw_q(4)
        /\ \A i \in DOMAIN filt.qvalues : filt.qvalues[i] # Scale \div 2

C6_Witness ==
    /\ IsLinkwitzRiley
    /\ filt.order = 4
    /\ Len(filt.biquads) = 2

\* the Butterworth(M) Q-list with its sentinel removed
ButterworthQs(M) == SelectSeq(Butterw_q(2 * M), LAMBDA q : q >= 0)

\* C7: for an even order N = 2M the Q-list of a Linkwitz-Riley combo is B ++ B (M
\* even) or B ++ B ++ [0.5] (M odd), B the Butterworth(M) list without its sentinel;
\* the combo has exactly M stages, all second-order, at the combo's freq and in its
\* pass direction.
C7_LinkwitzRileyQList ==
    (IsLinkwitzRiley /\ filt.order % 2 = 0) =>
        LET M == filt.order \div 2
            B == ButterworthQs(M)
        IN  /\ filt.qvalues = IF M % 2 = 0 THEN B \o B ELSE B \o B \o <<Scale \div 2>>
            /\ Len(filt.biquads) = M
            /\ \A i \in DOMAIN filt.biquads :
                  /\ filt.biquads[i].kind = "Biquad"
                  /\ IsSecondOrder(filt.bqconfs[i])
                  /\ filt.bqconfs[i].q = filt.qvalues[i]
                  /\ filt.bqconfs[i].freq = filt.freq
                  /\ filt.bqconfs[i].type =
                        IF filt.ftype = "LinkwitzRileyLowpass" THEN "Lowpass" ELSE "Highpass"

C7_Witness ==
    /\ IsLinkwitzRiley
    /\ filt.order = 6
    /\ Len(filt.qvalues) = 3
    /\ filt.qvalues[3] = Scale \div 2

\* C8: each of the five kinds exposes complex_gain, gain_and_phase and is_stable,
\* and is_stable returns one of true, false, unknown on every instance.
C8_AllKindsExposeAll ==
    filt.kind \in Kinds =>
        /\ {"complex_gain", "gain_and_phase", "is_stable"} \subseteq ClassMethods(filt.kind)
        /\ result.op = "is_stable" =>
              /\ result.status = "return"
              /\ result.value \in {"True", "False", "None"}

\* C9: is_stable() is unknown for every BiquadCombo and every DiffEq, and true for
\* every Gain.
C9_StabilityUnknownOrTrue ==
    CalledIsStable =>
        /\ filt.kind \in {"BiquadCombo", "DiffEq"} =>
              (result.status = "return" /\ result.value = "None")
        /\ filt.kind = "Gain" =>
              (result.status = "return" /\ result.value = "True")

C9_Witness ==
    /\ CalledIsStable
    /\ filt.kind = "DiffEq"
    /\ Len(filt.a) = 2
    /\ result.value = "None"

\* C10: is_stable() of a Biquad of any type is a definite boolean, equal to
\* |a2| < 1 and |a1| < 1 + a2 on the stored normalized coefficients.
C10_BiquadStability ==
    (CalledIsStable /\ filt.kind = "Biquad") =>
        /\ result.status = "return"
        /\ result.value \in {"True", "False"}
        /\ (result.value = "True") <=>
              /\ -Scale < filt.a2 /\ filt.a2 < Scale
              /\ -(Scale + filt.a2) < filt.a1 /\ filt.a1 < Scale + filt.a2

C10_Witness ==
    /\ CalledIsStable
    /\ filt.kind = "Biquad"
    /\ conf.type = "LinkwitzTransform"
    /\ result.value = "True"

\* C11: DiffEq.__init__ replaces each of a and b by [1.0] if and only if it is
\* empty, independently of the other, and keeps a non-empty vector as supplied.
C11_DiffEqDefaults ==
    [][NewDiffEq =>
          /\ filt'.a = IF Len(conf.a) = 0 THEN <<Scale>> ELSE conf.a
          /\ filt'.b = IF Len(conf.b) = 0 THEN <<Scale>> ELSE conf.b]_vars

\* a DiffEq built from an empty a and a non-empty b: only a was defaulted
C11_Witness ==
    /\ filt.kind = "DiffEq"
    /\ Len(conf.a) = 0 /\ filt.a = <<Scale>>
    /\ Len(conf.b) = 2 /\ filt.b = conf.b

CalledConvComplexGain ==
    filt.kind = "Conv" /\ result.op = "complex_gain" /\ result.status = "return"

\* C12 as stated: Conv.complex_gain transforms an impulse shorter than 1024 samples
\* at 1024 points, and one of 1024 samples or more at double its own length.
C12_ShortAt1024 ==
    CalledConvComplexGain =>
        result.value.nfft = IF result.value.impulselen < 1024 THEN 1024
                            ELSE 2 * result.value.impulselen

\* C12 amended: Conv.complex_gain transforms an impulse shorter than 1024 samples
\* at 2048 points, and one of 1024 samples or more at double its own length; in
\* both cases it keeps the first half of the transform.
C12_ShortAt2048 ==
    CalledConvComplexGain =>
        /\ result.value.nfft = IF result.value.impulselen < 1024 THEN 2048
                               ELSE 2 * result.value.impulselen
        /\ 2 * result.value.npoints = result.value.nfft

C12_Witness ==
    /\ CalledConvComplexGain
    /\ result.value.impulselen = 1023
    /\ result.value.nfft = 2048

\* C13: once a Conv or a DiffEq is constructed its impulse and coefficients never
\* change: not when the caller modifies the list it passed in, and not when an
\* evaluator is called.
C13_InstanceOwnsItsData ==
    [][filt.kind \in {"Conv", "DiffEq"} => filt' = filt]_vars

\* C14: constructing a Conv from a file configuration leaves the caller's
\* configuration record with the keys and values it had.
C14_ConfUntouchedByConv ==
    [][NewConvFile => conf' = conf]_vars

\* the lines s..last-1 of the file as float values
TextValues(s, last) ==
    IF s >= last THEN <<>> ELSE Scaled(SubSeq(file, s + 1, last), Scale)

\* C15: a text file of n lines read with skip count s and read count r yields the
\* lines s..n-1 when r is unset or zero, and the r lines s..s+r-1, clipped at the
\* end of the file, when r > 0.
C15_TextSkipThenCount ==
    (filt.kind \in {"Conv", "Raised"} /\ Has(conf, "filename") /\ conf.format = "TEXT") =>
        LET n == Len(file)
            s == IF Has(conf, "skip_bytes_lines") THEN conf.skip_bytes_lines ELSE 0
            r == IF Has(conf, "read_bytes_lines") THEN conf.read_bytes_lines ELSE 0
            last == IF r = 0 THEN n ELSE IF s + r < n THEN s + r ELSE n
        IN  /\ filt.kind = "Conv"
            /\ filt.impulse = TextValues(s, last)

\* C16: a binary file read with byte offset k and byte count r > 0, r a multiple of
\* the sample width, is decoded into the r / w samples of the r bytes at offset k.
\* Stated for the packed 24-bit format (w = 3), a file that holds the r bytes, and
\* the legacy promotion rule.
C16_BinaryByteCount ==
    (/\ filt.kind \in {"Conv", "Raised"}
     /\ Has(conf, "filename") /\ conf.format = "S24LE3"
     /\ np_promotion = "legacy"
     /\ Has(conf, "read_bytes_lines")
     /\ conf.read_bytes_lines > 0 /\ conf.read_bytes_lines % 3 = 0
     /\ Len(file) >= conf.read_bytes_lines
                       + (IF Has(conf, "skip_bytes_lines") THEN conf.skip_bytes_lines ELSE 0)) =>
        /\ filt.kind = "Conv"
        /\ Len(filt.impulse) = conf.read_bytes_lines \div 3

\* the step is a call of the method op: every method leaves its name in ws_result
IsCall(op) == ws_result'.op = op

\* C17: whenever the client is not connected, query() raises IOError and sends
\* nothing on any socket.
C17_QueryNotConnected ==
    [][(IsCall("query") /\ ~is_connected(_ws)) =>
          /\ ws_result'.status = "raise" /\ ws_result'.exc = "IOError"
          /\ sent' = sent
          /\ ~is_connected(_ws')]_vars

\* a query refused after a disconnect: the only message ever sent is the version
\* query of the connect
C17_Witness ==
    /\ ws_result.op = "query" /\ ws_result.exc = "IOError"
    /\ sockets = <<"closed">>
    /\ Len(sent) = 1
    /\ ~is_connected(_ws)

\* C18: connect() either returns with the client connected and cdsp_version set to
\* the (major, minor, patch) of the GetVersion reply, or raises and leaves the
\* client not connected.
C18_ConnectOutcomes ==
    [][IsCall("connect") =>
          \/ /\ ws_result'.status = "return"
             /\ is_connected(_ws')
             /\ rawrepl'[1].key = "GetVersion"
             /\ rawrepl'[1].value.type = "str"
             /\ \A i \in 1..3 :
                   cdsp_version'[1][i] =
                       IF i <= Len(rawrepl'[1].value.parts)
                       THEN rawrepl'[1].value.parts[i] ELSE ""
          \/ /\ ws_result'.status = "raise"
             /\ ~is_connected(_ws')]_vars

\* a connect that returned on a two-part version, and one that raised on a reply
\* carrying an error
C18_Witness ==
    /\ ws_result.op = "connect" /\ ws_result.status = "return"
    /\ is_connected(_ws)
    /\ cdsp_version = << <<"3", "0", "">> >>

\* C19: after disconnect() returns the client is not connected, whether close()
\* succeeded, raised, or there was no socket to close; disconnect() never raises.
C19_DisconnectAlways ==
    [][IsCall("disconnect") =>
          /\ ws_result'.status = "return"
          /\ ~is_connected(_ws')]_vars

\* a disconnect whose close() raised
C19_Witness ==
    /\ ws_result.op = "disconnect"
    /\ \E i \in DOMAIN sockets : sockets[i] = "close_failed"
    /\ ~is_connected(_ws)

\* a query on which send or recv raises
QueryFails ==
    /\ Len(sent) < MaxSent
    /\ \E command \in QueryCommands, arg \in Args :
       \E net \in {n \in QueryNets : n.send = "raise" \/ n.recv = "raise"} :
            /\ Done(query(_ws, cdsp_version, command, arg, net))
            /\ ws_call' = Call("query", command, arg)
    /\ UNCHANGED <<sockets, nonwsvars>>

\* C20: a query() on which send or recv fails raises IOError and leaves the client
\* not connected; a client that is not connected stays so, its queries raising
\* IOError without sending, until a connect() returns.
C20_LostUntilReconnect ==
    [][/\ (is_connected(_ws) /\ IsCall("query") /\ QueryFails) =>
              /\ ws_result'.status = "raise" /\ ws_result'.exc = "IOError"
              /\ ~is_connected(_ws')
       /\ (~is_connected(_ws) /\ is_connected(_ws')) =>
              (IsCall("connect") /\ ws_result'.status = "return")
       /\ (~is_connected(_ws) /\ IsCall("query")) =>
              (ws_result'.exc = "IOError" /\ Len(sent') = Len(sent))]_vars

\* the connection was lost by a query: its socket was never closed
C20_Witness ==
    /\ ws_result.op = "query" /\ ws_result.exc = "IOError"
    /\ sockets = <<"open">>
    /\ Len(sent) = 2
    /\ ~is_connected(_ws)

\* the step is a query that sent its message and received the reply rawrepl'
GotReply ==
    /\ IsCall("query")
    /\ is_connected(_ws)
    /\ rawrepl' # <<>>
    /\ Done(query(_ws, cdsp_version, ws_call'.command, ws_call'.arg,
                  Net("ok", "ok", "ok", rawrepl'[1], "ok")))

\* the reply is a JSON object keyed by the command
KeyedBy(r, command) == r.json /\ r.dict /\ r.key = command

\* C21: for a reply received on a connected client, query(command) returns the value
\* when the reply is keyed by the command with result Ok and a value, None when Ok
\* without a value, raises CamillaError (with the value or a default message) when
\* the result is Error, and raises IOError when the reply is not valid JSON or is
\* not keyed by the command; the client stays connected and cdsp_version unchanged.
C21_ReplyHandling ==
    [][GotReply =>
          LET r == rawrepl'[1]
              keyed == KeyedBy(r, ws_call'.command)
              value == IF r.has_value THEN r.value ELSE PyNone
          IN  /\ _ws' = _ws
              /\ cdsp_version' = cdsp_version
              /\ ~keyed =>
                    (ws_result'.status = "raise" /\ ws_result'.exc = "IOError")
              /\ (keyed /\ r.has_result /\ r.result = "Ok") =>
                    (ws_result'.status = "return" /\ ws_result'.value = value)
              /\ (keyed /\ r.has_result /\ r.result = "Error") =>
                    /\ ws_result'.status = "raise" /\ ws_result'.exc = "CamillaError"
                    /\ ws_result'.value = IF value # PyNone THEN value
                                          ELSE PyStr(<<"Command returned an error">>)]_vars

\* C22: a query on a connected client sends exactly one message, on the client's
\* socket: the JSON string of the command when arg is None, the JSON object
\* {command: arg} for every other arg, the falsy ones included.  (When send itself
\* raises, no message went out and the connection is lost.)
C22_OneMessagePerQuery ==
    [][(IsCall("query") /\ is_connected(_ws)) =>
          \/ sent' = Append(sent,
                 [sock |-> _ws[1],
                  text |-> IF ws_call'.arg = PyNone
                           THEN [json |-> "string", key |-> ws_call'.command,
                                 value |-> PyNone]
                           ELSE [json |-> "object", key |-> ws_call'.command,
                                 value |-> ws_call'.arg]])
          \/ /\ sent' = sent
             /\ ws_result'.exc = "IOError"
             /\ ~is_connected(_ws')]_vars

\* a query with arg False went out as {command: false}, after the version query
C22_Witness ==
    /\ ws_call.op = "query" /\ ws_call.arg = PyBoolean(FALSE)
    /\ Len(sent) = 2
    /\ sent[2].text.json = "object"
    /\ sent[2].text.key = ws_call.command
    /\ sent[2].text.value = PyBoolean(FALSE)

\* C30: every socket the client opened has been closed, except at most the one
\* that is its current connection.
C30_NoSocketLeaked ==
    \A i \in DOMAIN sockets : sockets[i] = "open" => _ws = <<i>>

\* C25: the frequencies Conv.complex_gain attaches to the bins it keeps are the
\* bins' native ones, k * fs / L for bin k of a transform of length L: they start
\* at 0 and are fs / L apart.
C25_NativeBinFrequencies ==
    CalledConvComplexGain =>
        /\ result.value.f_fft.start = 0
        /\ LinspaceStep(result.value.f_fft).num * result.value.nfft
               = filt.fs * LinspaceStep(result.value.f_fft).den

CalledRepack == result.op = "_repack_24bit" /\ Len(result.vect) % 3 = 0

\* C26: _repack_24bit on a byte vector whose length is a multiple of 3 returns one
\* value per byte triple, normalized to full scale +-1: first byte +1 or -1 and
\* the others 0 gives +-1/128, last byte 1 and the others 0 gives 1/2^23.
C26_RepackNormalized ==
    CalledRepack =>
        /\ result.status = "return"
        /\ Len(result.value) = Len(result.vect) \div 3
        /\ \A i \in 1..(Len(result.vect) \div 3) :
              LET b == SubSeq(result.vect, 3 * i - 2, 3 * i)
                  v == result.value[i]
              IN  /\ Abs[v.num] <= v.den
                  /\ b = <<1, 0, 0>> => v.num * 128 = v.den
                  /\ b = <<255, 0, 0>> => v.num * 128 = -v.den
                  /\ b = <<0, 0, 1>> => v.num * 8388608 = v.den

IsRate(reply) == reply.type = "int" \/ (reply.type = "float" /\ reply.tenths >= 0)

\* the raw rate as an integer: the integral part of what the server reported
RawOf(reply) == IF reply.type = "int" THEN reply.v ELSE reply.tenths \div 10

Within4(raw, r) == 96 * r < 100 * raw /\ 100 * raw < 104 * r

StandardRates == {_STANDARD_RATES[i] : i \in DOMAIN _STANDARD_RATES}

\* C23: rate.capture() returns the standard rate r exactly when the raw rate is
\* within +-4% of some standard rate (0.96 < raw/r < 1.04), r then being the
\* standard rate nearest to the raw rate, and None otherwise; capture_raw()
\* returns the raw rate as an integer.
C23_CaptureRate ==
    /\ (cmd_result.op = "capture" /\ IsRate(cmd_result.reply)) =>
          LET raw == RawOf(cmd_result.reply)
          IN  /\ cmd_result.status = "return"
              /\ (\E r \in StandardRates : Within4(raw, r)) =>
                    /\ Len(cmd_result.value) = 1
                    /\ cmd_result.value[1] \in StandardRates
                    /\ Within4(raw, cmd_result.value[1])
                    /\ \A r \in StandardRates :
                          Abs[cmd_result.value[1] - raw] <= Abs[r - raw]
              /\ ~(\E r \in StandardRates : Within4(raw, r)) => cmd_result.value = <<>>
    /\ (cmd_result.op = "capture_raw" /\ IsRate(cmd_result.reply)) =>
          /\ cmd_result.status = "return"
          /\ cmd_result.value = <<RawOf(cmd_result.reply)>>

C23_Witness ==
    /\ cmd_result.op = "capture"
    /\ cmd_result.reply = PyI(88250)
    /\ cmd_result.value = <<88200>>

\* C24: adjust_volume sends AdjustFaderVolume with (fader, value) when neither
\* limit is given and with (fader, (value, min, max)) when at least one is, a
\* missing min being -150.0 and a missing max 50.0; it returns the second
\* element of the reply.
C24_AdjustVolume ==
    cmd_result.op = "adjust_volume" =>
        LET a == cmd_result.args
            nomin == a.min_limit = PyNone
            nomax == a.max_limit = PyNone
        IN  /\ cmd_result.query.command = "AdjustFaderVolume"
            /\ (nomin /\ nomax) =>
                  cmd_result.query.arg = PyTuple(<<a.fader, float(a.value)>>)
            /\ ~(nomin /\ nomax) =>
                  cmd_result.query.arg =
                      PyTuple(<<a.fader,
                                PyTuple(<<float(a.value),
                                          IF nomin THEN PyF(-1500) ELSE float(a.min_limit),
                                          IF nomax THEN PyF(500) ELSE float(a.max_limit)>>)>>)
            /\ cmd_result.reply.type = "list" =>
                  /\ cmd_result.status = "return"
                  /\ cmd_result.value = float(cmd_result.reply.items[2])

C24_Witness ==
    /\ cmd_result.op = "adjust_volume"
    /\ cmd_result.args.min_limit = PyNone
    /\ cmd_result.args.max_limit = PyF(35)
    /\ cmd_result.query.arg.items[2] = PyTuple(<<PyF(-25), PyF(-1500), PyF(35)>>)
    /\ cmd_result.reply = PyList(<<PyI(1), PyI(-20)>>)
    /\ cmd_result.value = PyF(-200)

\* C29: the data of a StopReason value returned from stop_reason() is the data
\* of the reply it was built from and never changes afterwards: every value the
\* caller was handed still carries the data it was handed with.
C29_StopReasonDataStable == \A h \in held : _data[h.member] = h.data

InSendRecv(t) == threads[t].pc \in {"q_send", "q_recv"}

\* C27: with several threads in query() on one client, the send and the receive
\* of one query are never interleaved with those of another (at most one thread
\* is between its send and its receive, and it holds the lock), and every thread
\* that received a reply received the reply to its own request.
C27_OwnReply ==
    /\ \A t, u \in Threads : (InSendRecv(t) /\ InSendRecv(u)) => t = u
    /\ \A t \in Threads : InSendRecv(t) => _lock = <<t>>
    /\ \A t \in Threads :
          threads[t].pc = "q_reply" => threads[t].rawrepl = <<threads[t].call>>

C27_Witness ==
    \E t, u \in Threads :
        /\ t # u
        /\ threads[t].op = "query" /\ threads[u].op = "query"
        /\ threads[t].pc = "q_reply" /\ threads[t].rawrepl = <<threads[t].call>>
        /\ threads[u].pc = "q_reply" /\ threads[u].rawrepl = <<threads[u].call>>

\* C28: a failing query or a disconnect() started on an earlier connection never
\* clears a connection a concurrent connect() established afterwards: when a step
\* of query() or disconnect() sets self._ws to None while it holds a socket whose
\* connect() has returned and which is still open, the call began after that
\* connect() returned.
C28_NoStaleClear ==
    [][\A t \in Threads :
          (/\ threads'[t] # threads[t]
           /\ threads[t].op \in {"query", "disconnect"}
           /\ Usable(_ws, sockets)
           /\ _ws' = <<>>)
          => \A e \in established : e.sock = _ws[1] => threads[t].call > e.at]_vars

====
